---- MODULE Spec2Model ----
(***************************************************************************)
(* Model of bizhawk_mcp_server.py: the liveness monitor, the dual-channel  *)
(* transport (persistent socket with fallback to polled request/response   *)
(* files) and the orchestrated tool workflows built on send_command.       *)
(*                                                                         *)
(* Time is counted in whole seconds for the liveness record and in whole   *)
(* milliseconds for the polling loop; the quotient timeout / poll_interval *)
(* is the integer quotient of the two millisecond values.                  *)
(***************************************************************************)
EXTENDS Integers, Sequences, FiniteSets, TLC

\* ------------------------------------------------------------------ bounds
MaxId == 3          \* ids one process lifetime may allocate in the model
MaxEpoch == 1       \* process restarts explored
MaxPolls == 2       \* largest number of polls a modelled timeout allows

\* ------------------------------------------------------- program constants
POLL_INTERVAL_MS == 50
PAUSED_MAX_AGE == 120
RUNNING_MAX_AGE == 30

VARIABLES
    command_id,         \* global id counter
    socket_connection,  \* "None" or "open": the shared socket handle
    stateFile,          \* STATE_FILE as the peer last wrote it
    now,                \* time.time() in seconds
    cmdFile,            \* COMMAND_FILE
    respFile,           \* RESPONSE_FILE
    sockIn,             \* line waiting to be received on the socket
    peerInbox,          \* command line the peer received on the socket
    pc,                 \* position of the process inside send_command
    action,             \* send_command argument
    timeout,            \* send_command argument, in ms
    alive, message,     \* locals of send_command (check_bizhawk_alive result)
    cmd_id,             \* local of send_command_socket / send_command_file
    i, max_polls,       \* locals of the polling loop
    slept,              \* total of the time.sleep arguments of this call, ms
    result,             \* value returned by send_command
    ids,                \* ids this call allocated, in order
    sentMax,            \* highest id this process put in an outgoing command
    chanOps,            \* channel operations this call performed, in order
    epoch,              \* process lifetime number
    openSockets,        \* connected sockets this process holds and has not closed
    tool,               \* call_tool argument: name
    arguments,          \* call_tool argument: arguments
    tpc,                \* position of the process inside call_tool
    locals,             \* locals of call_tool
    calls,              \* the send_command calls this call_tool made, in order
    toolResult,         \* value call_tool serialises
    peerPaused,         \* the peer's run/pause state
    pausedBefore,       \* the peer's run/pause state when call_tool was entered
    recordBefore,       \* the liveness record when call_tool was entered
    allOk,              \* every send_command of this call_tool was executed by
                        \* the peer and answered without error
    phase1Ran,          \* this process has completed a find_value_on_event
                        \* phase 1
    fnArgs,             \* arguments of the local function under evaluation
    fnResult,           \* what that function returned or raised
    tasks,              \* the call_tool coroutines the event loop holds
    running,            \* the coroutine that has the thread, 0 for the loop itself
    wire                \* last operation on the open socket: "write" or "read"

transportVars == <<command_id, socket_connection, now, cmdFile, respFile,
                   sockIn, peerInbox, pc, action, timeout, alive, message,
                   cmd_id, i, max_polls, slept, result, ids, sentMax, chanOps,
                   epoch, openSockets>>

toolVars == <<tool, arguments, tpc, locals, calls, toolResult, peerPaused,
              pausedBefore, recordBefore, allOk, phase1Ran>>

pureVars == <<fnArgs, fnResult>>

loopVars == <<tasks, running, wire>>

vars == <<transportVars, stateFile, toolVars, pureVars, loopVars>>

\* ------------------------------------------------------------ value shapes
Actions == {"memory.read", "execution.step"}

Timeouts == {0, POLL_INTERVAL_MS * MaxPolls, POLL_INTERVAL_MS * MaxPolls + 20}

Max(a, b) == IF a >= b THEN a ELSE b

NoCommand == [id |-> 0, action |-> "none", epoch |-> 0]

Command(id, a) == [id |-> id, action |-> a, epoch |-> epoch]

\* A response object as the peer wrote it.  reqId/reqEpoch record the request
\* the peer produced it for.
Response(cid, err, rid, rep) ==
    [kind |-> "response", commandId |-> cid, error |-> err,
     reqId |-> rid, reqEpoch |-> rep]

Artifact(k) ==
    [kind |-> k, commandId |-> 0, error |-> FALSE, reqId |-> 0, reqEpoch |-> 0]

NoDetail == [text |-> "", status |-> "", age |-> 0]

Detail(t, s, a) == [text |-> t, status |-> s, age |-> a]

\* The dict send_command returns.
Result(k, hasId, cid, err, d, rid, rep) ==
    [kind |-> k, hasCommandId |-> hasId, commandId |-> cid, error |-> err,
     bizhawk_not_running |-> (k = "unreachable"), detail |-> d,
     reqId |-> rid, reqEpoch |-> rep]

NoResult == Result("none", FALSE, 0, FALSE, NoDetail, 0, 0)

FromResponse(r) ==
    Result("response", TRUE, r.commandId, r.error, NoDetail, r.reqId, r.reqEpoch)

\* ------------------------------------------------------- liveness monitor
StateRecord(tsKind, ts, pKind, p) ==
    [kind |-> "record", tsKind |-> tsKind, timestamp |-> ts,
     pausedKind |-> pKind, isPaused |-> p]

StateAbsent == [kind |-> "absent", tsKind |-> "missing", timestamp |-> 0,
                pausedKind |-> "missing", isPaused |-> FALSE]

StateUnreadable == [kind |-> "unreadable", tsKind |-> "missing", timestamp |-> 0,
                    pausedKind |-> "missing", isPaused |-> FALSE]

\* state.get('timestamp', 0) and state.get('isPaused', False)
GetTimestamp(state) == IF state.tsKind = "missing" THEN 0 ELSE state.timestamp
GetIsPaused(state) == IF state.pausedKind = "missing" THEN FALSE ELSE state.isPaused

\* The two thresholds exchanged.
MaxAge_Swapped(is_paused) == IF is_paused THEN RUNNING_MAX_AGE ELSE PAUSED_MAX_AGE

MaxAge(is_paused) == IF is_paused THEN PAUSED_MAX_AGE ELSE RUNNING_MAX_AGE

Raised(name) == [raised |-> TRUE, alive |-> FALSE, detail |-> Detail("", name, 0)]
Returned(a, d) == [raised |-> FALSE, alive |-> a, detail |-> d]

\* The body of the try block of check_bizhawk_alive.
CheckBody(state, t) ==
    IF state.kind = "absent"
    THEN Returned(FALSE, Detail("State file not found.", "", 0))
    ELSE IF state.kind = "unreadable"
    THEN Raised("JSONDecodeError")
    ELSE IF state.tsKind = "bad"
    THEN Raised("TypeError")
    ELSE LET timestamp == GetTimestamp(state)
             is_paused == GetIsPaused(state)
             age       == t - timestamp
             max_age   == MaxAge(is_paused)
         IN  IF age > max_age
             THEN Returned(FALSE,
                      Detail("BizHawk not responding",
                             IF is_paused THEN "PAUSED" ELSE "STALE", age))
             ELSE Returned(TRUE, Detail("OK", "", 0))

\* No except clause: what the try block raises escapes.
CatchAll_Missing(r) == r

\* except Exception as e: return False, f"Error checking BizHawk status: {e}"
CatchAll(r) ==
    IF r.raised
    THEN Returned(FALSE, Detail("Error checking BizHawk status", r.detail.status, 0))
    ELSE r

check_bizhawk_alive(state, t) == CatchAll(CheckBody(state, t))

\* ---------------------------------------------------------------- transport
Now0 == 1000

\* Liveness records the transport specification lets the peer leave behind.
TransportStateFiles ==
    { StateAbsent,
      StateRecord("num", Now0 - 40, "bool", FALSE),
      StateRecord("num", Now0 - 40, "bool", TRUE) }

\* get_next_id without the increment.
get_next_id_NoIncrement(counter) == counter

\* get_next_id: the new value of the counter, which is also the id returned.
get_next_id(counter) == counter + 1

\* max_polls rounded up instead of down.
MaxPollsFor_RoundUp(t) == (t + POLL_INTERVAL_MS - 1) \div POLL_INTERVAL_MS

\* max_polls = int(timeout / poll_interval)
MaxPollsFor(t) == t \div POLL_INTERVAL_MS

Unreachable(d) == Result("unreachable", FALSE, 0, TRUE, d, 0, 0)
WriteError(cid) == Result("write_error", TRUE, cid, TRUE, NoDetail, 0, 0)
TimeoutResult(cid) == Result("timeout", TRUE, cid, TRUE, NoDetail, 0, 0)

NoSub == [error |-> FALSE, id |-> -1, seq |-> 0, object |-> TRUE]

NoToolResult == [kind |-> "none", error |-> FALSE, from |-> 0]

\* frames is "missing" for a call without a frames argument (or with an
\* integer) and "none" for a value min() cannot compare with an integer.
NoArguments == [phase |-> 0, action |-> "", filter |-> "", frames |-> "missing"]

NoLocals == [was_paused |-> FALSE, snap_result |-> NoSub,
             compare_result |-> NoSub, bp_result |-> NoSub, bp_id |-> -1,
             data |-> 0, candidates |-> 0]

\* No local function is under evaluation.
NoCall == [fn |-> "none"]

NoReturn == [kind |-> "none"]

MaxTasks == 2        \* call_tool coroutines the event loop holds at a time

\* A call_tool coroutine: its position, the cmd_id local of the send it is
\* in, and the send_command calls it has completed.
NoTask == [pos |-> "none", cmd_id |-> 0, sends |-> 0]

\* The event loop holds no call_tool coroutine.
InitLoopIdle ==
    /\ tasks = [t \in 1..MaxTasks |-> NoTask]
    /\ running = 0
    /\ wire = "none"

InitPureIdle ==
    /\ fnArgs = NoCall
    /\ fnResult = NoReturn

\* The tool front is idle: no call_tool has been made.
InitToolsIdle ==
    /\ tool = "none"
    /\ arguments = NoArguments
    /\ tpc = "idle"
    /\ locals = NoLocals
    /\ calls = <<>>
    /\ toolResult = NoToolResult
    /\ peerPaused = FALSE
    /\ pausedBefore = FALSE
    /\ recordBefore = StateAbsent
    /\ allOk = TRUE
    /\ phase1Ran = FALSE

InitTransport ==
    /\ command_id = 0
    /\ socket_connection = "None"
    /\ cmdFile = NoCommand
    /\ respFile = Artifact("absent")
    /\ sockIn = Artifact("absent")
    /\ peerInbox = NoCommand
    /\ pc = "idle"
    /\ action = "none"
    /\ timeout = 0
    /\ alive = FALSE
    /\ message = NoDetail
    /\ cmd_id = 0
    /\ i = 0
    /\ max_polls = 0
    /\ slept = 0
    /\ result = NoResult
    /\ ids = <<>>
    /\ sentMax = 0
    /\ chanOps = <<>>
    /\ epoch = 0
    /\ openSockets = 0

Init ==
    /\ InitTransport
    /\ InitLoopIdle
    /\ stateFile \in TransportStateFiles
    /\ now = Now0
    /\ InitToolsIdle
    /\ InitPureIdle

\* A caller enters send_command(action, timeout).
Call(a, t) ==
    /\ UNCHANGED <<toolVars, pureVars, loopVars, openSockets>>
    /\ pc \in {"idle", "done"}
    \* a call that will allocate ids (up to two) starts only below the cap
    /\ \/ command_id + 2 <= MaxId
       \/ ~check_bizhawk_alive(stateFile, now).alive
    /\ pc' = "check"
    /\ action' = a
    /\ timeout' = t
    /\ result' = NoResult
    /\ ids' = <<>>
    /\ chanOps' = <<>>
    /\ cmd_id' = 0
    /\ i' = 0
    /\ max_polls' = 0
    /\ slept' = 0
    /\ alive' = FALSE
    /\ message' = NoDetail
    /\ UNCHANGED <<command_id, socket_connection, stateFile, now, cmdFile,
                   respFile, sockIn, peerInbox, sentMax, epoch>>

\* send_command that tries the channels whatever the liveness check said.
send_command_NoShortCircuit ==
    /\ UNCHANGED <<toolVars, pureVars, loopVars, openSockets>>
    /\ pc = "check"
    /\ LET r == check_bizhawk_alive(stateFile, now)
       IN  /\ alive' = r.alive
           /\ message' = r.detail
    /\ pc' = "socket"
    /\ UNCHANGED <<command_id, socket_connection, stateFile, now, cmdFile,
                   respFile, sockIn, peerInbox, action, timeout, cmd_id, i,
                   max_polls, slept, result, ids, sentMax, chanOps, epoch>>

\* send_command, lines 262-265: the liveness check and its short circuit.
send_command ==
    /\ UNCHANGED <<toolVars, pureVars, loopVars, openSockets>>
    /\ pc = "check"
    /\ LET r == check_bizhawk_alive(stateFile, now)
       IN  /\ alive' = r.alive
           /\ message' = r.detail
           /\ IF r.raised
              THEN /\ pc' = "raised"
                   /\ result' = result
              ELSE IF r.alive
              THEN /\ pc' = "socket"
                   /\ result' = result
              ELSE /\ pc' = "done"
                   /\ result' = Unreachable(r.detail)
    /\ UNCHANGED <<command_id, socket_connection, stateFile, now, cmdFile,
                   respFile, sockIn, peerInbox, action, timeout, cmd_id, i,
                   max_polls, slept, ids, sentMax, chanOps, epoch>>

\* get_socket_connection, called first thing by send_command_socket, and on
\* success the id allocation of lines 188-189.
get_socket_connection ==
    /\ UNCHANGED <<toolVars, pureVars, loopVars>>
    /\ pc = "socket"
    /\ \/ /\ socket_connection # "None"
          /\ UNCHANGED <<socket_connection, sockIn, peerInbox, openSockets>>
          /\ chanOps' = chanOps
          /\ cmd_id' = get_next_id(command_id)
          /\ command_id' = get_next_id(command_id)
          /\ ids' = Append(ids, get_next_id(command_id))
          /\ pc' = "sendall"
       \/ /\ socket_connection = "None"       \* connect() succeeds
          /\ socket_connection' = "open"
          /\ openSockets' = openSockets + 1
          /\ sockIn' = Artifact("absent")
          /\ peerInbox' = NoCommand
          /\ chanOps' = Append(chanOps, "connect")
          /\ cmd_id' = get_next_id(command_id)
          /\ command_id' = get_next_id(command_id)
          /\ ids' = Append(ids, get_next_id(command_id))
          /\ pc' = "sendall"
       \/ /\ socket_connection = "None"       \* connect() raises; the local
          \* socket object was never connected and is released on return
          /\ UNCHANGED <<socket_connection, sockIn, peerInbox, cmd_id,
                         command_id, ids, openSockets>>
          /\ chanOps' = Append(chanOps, "connect_failed")
          /\ pc' = "file"
    /\ UNCHANGED <<stateFile, now, cmdFile, respFile, action, timeout, alive,
                   message, i, max_polls, slept, result, sentMax, epoch>>

\* A teardown that forgets the handle without closing the socket.
CloseAndFallBack_ForgetOnly ==
    /\ openSockets' = openSockets
    /\ socket_connection' = "None"
    /\ sockIn' = Artifact("absent")
    /\ peerInbox' = NoCommand
    /\ pc' = "file"
    /\ result' = result

\* close_socket_connection as called from the except branch, line 212.
CloseAndFallBack ==
    /\ openSockets' = IF socket_connection # "None"
                      THEN openSockets - 1 ELSE openSockets
    /\ socket_connection' = "None"
    /\ sockIn' = Artifact("absent")
    /\ peerInbox' = NoCommand
    /\ pc' = "file"
    /\ result' = result

\* send_command_socket, lines 193-195: sock.sendall(message).
SocketSend ==
    /\ UNCHANGED <<toolVars, pureVars, loopVars>>
    /\ pc = "sendall"
    /\ \/ /\ peerInbox' = Command(cmd_id, action)
          /\ sentMax' = Max(sentMax, cmd_id)
          /\ chanOps' = Append(chanOps, "sendall")
          /\ pc' = "recv"
          /\ UNCHANGED <<socket_connection, sockIn, result, openSockets>>
       \/ /\ CloseAndFallBack                 \* sendall raises
          /\ chanOps' = chanOps \o <<"sendall_failed", "close">>
          /\ sentMax' = sentMax
    /\ UNCHANGED <<command_id, stateFile, now, cmdFile, respFile, action,
                   timeout, alive, message, cmd_id, i, max_polls, slept, ids,
                   epoch>>

\* send_command_socket, lines 198-213: read one line and decode it.
SocketRecv ==
    /\ UNCHANGED <<toolVars, pureVars, loopVars>>
    /\ pc = "recv"
    /\ \/ /\ sockIn.kind = "response"         \* a JSON object: returned as is
          /\ result' = FromResponse(sockIn)
          /\ sockIn' = Artifact("absent")
          /\ pc' = "done"
          /\ chanOps' = Append(chanOps, "recv")
          /\ UNCHANGED <<socket_connection, peerInbox, openSockets>>
       \/ /\ sockIn.kind = "null"             \* the line decodes to None
          /\ result' = result
          /\ sockIn' = Artifact("absent")
          /\ pc' = "file"
          /\ chanOps' = Append(chanOps, "recv")
          /\ UNCHANGED <<socket_connection, peerInbox, openSockets>>
       \/ /\ sockIn.kind = "garbage"          \* json.loads raises
          /\ CloseAndFallBack
          /\ chanOps' = chanOps \o <<"recv", "close">>
       \/ /\ sockIn.kind = "absent"           \* recv times out or returns b""
          /\ CloseAndFallBack
          /\ chanOps' = chanOps \o <<"recv_failed", "close">>
    /\ UNCHANGED <<command_id, stateFile, now, cmdFile, respFile, action,
                   timeout, alive, message, cmd_id, i, max_polls, slept, ids,
                   sentMax, epoch>>

\* send_command_file that goes on to poll after a failed write.
FileWrite_PollAnyway ==
    /\ UNCHANGED <<toolVars, pureVars, loopVars, openSockets>>
    /\ pc = "file"
    /\ cmd_id' = get_next_id(command_id)
    /\ command_id' = get_next_id(command_id)
    /\ ids' = Append(ids, get_next_id(command_id))
    /\ \/ /\ cmdFile' = Command(get_next_id(command_id), action)
          /\ sentMax' = Max(sentMax, get_next_id(command_id))
          /\ chanOps' = Append(chanOps, "write_cmd")
       \/ /\ UNCHANGED <<cmdFile, sentMax>>
          /\ chanOps' = Append(chanOps, "write_cmd_failed")
    /\ max_polls' = MaxPollsFor(timeout)
    /\ i' = 0
    /\ pc' = "poll"
    /\ result' = result
    /\ UNCHANGED <<socket_connection, stateFile, now, respFile, sockIn,
                   peerInbox, action, timeout, alive, message, slept, epoch>>

\* send_command_file, lines 218-233: allocate an id, write the request
\* artifact, compute the number of polls.
FileWrite ==
    /\ UNCHANGED <<toolVars, pureVars, loopVars, openSockets>>
    /\ pc = "file"
    /\ cmd_id' = get_next_id(command_id)
    /\ command_id' = get_next_id(command_id)
    /\ ids' = Append(ids, get_next_id(command_id))
    /\ \/ /\ cmdFile' = Command(get_next_id(command_id), action)
          /\ sentMax' = Max(sentMax, get_next_id(command_id))
          /\ chanOps' = Append(chanOps, "write_cmd")
          /\ max_polls' = MaxPollsFor(timeout)
          /\ i' = 0
          /\ pc' = "poll"
          /\ result' = result
       \/ /\ UNCHANGED <<cmdFile, sentMax, max_polls, i>>   \* open/dump raises
          /\ chanOps' = Append(chanOps, "write_cmd_failed")
          /\ result' = WriteError(get_next_id(command_id))
          /\ pc' = "done"
    /\ UNCHANGED <<socket_connection, stateFile, now, respFile, sockIn,
                   peerInbox, action, timeout, alive, message, slept, epoch>>

\* A polling iteration that gives up on a response it cannot use.
Poll_GiveUp ==
    /\ UNCHANGED <<toolVars, pureVars, loopVars, openSockets>>
    /\ pc = "poll"
    /\ i < max_polls
    /\ slept' = slept + POLL_INTERVAL_MS
    /\ chanOps' = Append(chanOps, "read_resp")
    /\ result' = TimeoutResult(cmd_id)
    /\ pc' = "done"
    /\ i' = i
    /\ UNCHANGED <<command_id, socket_connection, stateFile, now, cmdFile,
                   respFile, sockIn, peerInbox, action, timeout, alive,
                   message, cmd_id, max_polls, ids, sentMax, epoch>>

\* A polling iteration that returns whatever response object it finds.
Poll_AnyResponse ==
    /\ UNCHANGED <<toolVars, pureVars, loopVars, openSockets>>
    /\ pc = "poll"
    /\ i < max_polls
    /\ slept' = slept + POLL_INTERVAL_MS
    /\ chanOps' = Append(chanOps, "read_resp")
    /\ IF respFile.kind = "response"
       THEN /\ result' = FromResponse(respFile)
            /\ pc' = "done"
            /\ i' = i
       ELSE /\ result' = result
            /\ pc' = "poll"
            /\ i' = i + 1
    /\ UNCHANGED <<command_id, socket_connection, stateFile, now, cmdFile,
                   respFile, sockIn, peerInbox, action, timeout, alive,
                   message, cmd_id, max_polls, ids, sentMax, epoch>>

\* One iteration of the polling loop, lines 235-246.
Poll ==
    /\ UNCHANGED <<toolVars, pureVars, loopVars, openSockets>>
    /\ pc = "poll"
    /\ i < max_polls
    /\ slept' = slept + POLL_INTERVAL_MS
    /\ chanOps' = Append(chanOps, "read_resp")
    /\ IF respFile.kind = "response" /\ respFile.commandId = cmd_id
       THEN /\ result' = FromResponse(respFile)
            /\ pc' = "done"
            /\ i' = i
       ELSE /\ result' = result
            /\ pc' = "poll"
            /\ i' = i + 1
    /\ UNCHANGED <<command_id, socket_connection, stateFile, now, cmdFile,
                   respFile, sockIn, peerInbox, action, timeout, alive,
                   message, cmd_id, max_polls, ids, sentMax, epoch>>

\* The loop is exhausted, lines 248-249.
PollTimeout ==
    /\ UNCHANGED <<toolVars, pureVars, loopVars, openSockets>>
    /\ pc = "poll"
    /\ i >= max_polls
    /\ result' = TimeoutResult(cmd_id)
    /\ pc' = "done"
    /\ UNCHANGED <<command_id, socket_connection, stateFile, now, cmdFile,
                   respFile, sockIn, peerInbox, action, timeout, alive,
                   message, cmd_id, i, max_polls, slept, ids, sentMax, chanOps,
                   epoch>>

\* The process exits and is started again: module-level initialisation of
\* command_id (line 63) and socket_connection (line 148); the files stay.
Restart ==
    /\ UNCHANGED <<toolVars, pureVars, loopVars>>
    /\ pc \in {"idle", "done"}
    /\ epoch < MaxEpoch
    /\ epoch' = epoch + 1
    /\ command_id' = 0
    /\ socket_connection' = "None"
    /\ openSockets' = 0
    /\ sockIn' = Artifact("absent")
    /\ peerInbox' = NoCommand
    /\ pc' = "idle"
    /\ result' = NoResult
    /\ sentMax' = 0
    /\ ids' = <<>>
    /\ chanOps' = <<>>
    /\ UNCHANGED <<stateFile, now, cmdFile, respFile, action, timeout, alive,
                   message, cmd_id, i, max_polls, slept>>

\* ------------------------------------------------------------------- peer
\* The peer answers the command it received on the socket with one line; the
\* line is a response object (whose commandId the peer chooses), the JSON
\* value null, or bytes that do not decode.
PeerSocketReply ==
    /\ UNCHANGED <<toolVars, pureVars, loopVars, openSockets>>
    /\ socket_connection = "open"
    /\ peerInbox # NoCommand
    /\ sockIn.kind = "absent"
    /\ \/ \E cid \in 0..MaxId, err \in BOOLEAN :
             sockIn' = Response(cid, err, peerInbox.id, peerInbox.epoch)
       \/ sockIn' = Artifact("null")
       \/ sockIn' = Artifact("garbage")
    /\ peerInbox' = NoCommand
    /\ UNCHANGED <<command_id, socket_connection, stateFile, now, cmdFile,
                   respFile, pc, action, timeout, alive, message, cmd_id, i,
                   max_polls, slept, result, ids, sentMax, chanOps, epoch>>

\* The peer answers the request artifact: the response artifact carries the
\* id of the request; while the peer is writing it the artifact is partial.
PeerFileReply ==
    /\ UNCHANGED <<toolVars, pureVars, loopVars, openSockets>>
    /\ cmdFile # NoCommand
    /\ \/ \E err \in BOOLEAN :
             respFile' = Response(cmdFile.id, err, cmdFile.id, cmdFile.epoch)
       \/ respFile' = Artifact("partial")
    /\ respFile' # respFile
    /\ UNCHANGED <<command_id, socket_connection, stateFile, now, cmdFile,
                   sockIn, peerInbox, pc, action, timeout, alive, message,
                   cmd_id, i, max_polls, slept, result, ids, sentMax, chanOps,
                   epoch>>

\* The peer rewrites the liveness record, or time passes over it.  The record
\* is read only on entry to send_command, so changes are taken between calls.
PeerWritesState ==
    /\ UNCHANGED <<toolVars, pureVars, loopVars, openSockets>>
    /\ pc \in {"idle", "done"}
    /\ stateFile' \in TransportStateFiles \ {stateFile}
    /\ UNCHANGED <<command_id, socket_connection, now, cmdFile, respFile,
                   sockIn, peerInbox, pc, action, timeout, alive, message,
                   cmd_id, i, max_polls, slept, result, ids, sentMax, chanOps,
                   epoch>>

Next ==
    \/ \E a \in Actions, t \in Timeouts : Call(a, t)
    \/ send_command
    \/ get_socket_connection
    \/ SocketSend
    \/ SocketRecv
    \/ FileWrite
    \/ Poll
    \/ PollTimeout
    \/ Restart
    \/ PeerSocketReply
    \/ PeerFileReply
    \/ PeerWritesState

Spec == Init /\ [][Next]_vars

\* Fairness of the sequential control flow: a polling loop that can take
\* its next step eventually takes it.
FairSpec == Spec /\ WF_vars(Poll) /\ WF_vars(PollTimeout)

\* ------------------------------------------------------------ orchestrator
\* In the tool specification one send_command call is one step of call_tool:
\* it returns a dict that has an "error" key or not, and the peer has executed
\* the command or not (a timeout can follow an execution; a response without
\* error can be one the peer produced for another request).
DEFAULT_TIMEOUT == 10000
FAST_TIMEOUT == 5000

MAX_CANDIDATES == 200

W_FDV == "emu_cheat_find_decrementing_value"
W_EVENT == "emu_cheat_find_value_on_event"
W_NARROW == "emu_cheat_narrow_candidates"
W_CAPTURE == "emu_debug_capture_write_source"
W_TRACE == "emu_debug_trace_and_summarize"

Workflows == {W_FDV, W_EVENT, W_NARROW, W_CAPTURE, W_TRACE}

ArgumentsOf(name) ==
    IF name = W_EVENT
    THEN {[phase |-> ph, action |-> "", filter |-> f, frames |-> "missing"] :
             ph \in 0..3, f \in {"", "increased"}}
    ELSE IF name = W_NARROW
    THEN {[phase |-> 0, action |-> a, filter |-> "", frames |-> "missing"] :
             a \in {"", "snapshot", "filter", "compare"}}
    ELSE IF name \in {W_FDV, W_CAPTURE, W_TRACE}
    THEN {[NoArguments EXCEPT !.frames = k] : k \in {"missing", "none"}}
    ELSE {NoArguments}

ToolStateFiles ==
    { StateAbsent, StateUnreadable,
      StateRecord("num", Now0 - 1, "bool", TRUE),
      StateRecord("num", Now0 - 1, "bool", FALSE),
      StateRecord("num", Now0 - 1, "missing", FALSE) }

\* Ids a breakpoint.add response may carry in data.id (-1: no id).
BreakpointIds == {-1, 0, 7}

\* object is FALSE for a result that is not a dict: a socket line that
\* decodes to a JSON value other than an object or null, returned as it is.
SubResults(a) ==
    { [error |-> e, executed |-> x, id |-> d, object |-> TRUE] :
        e \in BOOLEAN, x \in BOOLEAN,
        d \in (IF a = "breakpoint.add" THEN BreakpointIds ELSE {-1}) }
    \cup { [error |-> FALSE, executed |-> x, id |-> -1, object |-> FALSE] :
             x \in BOOLEAN }

\* The peer's run/pause state after it executed (or not) a command.
PeerAfter(a, executed, paused) ==
    IF ~executed THEN {paused}
    ELSE IF a = "execution.pause" THEN {TRUE}
    ELSE IF a = "execution.resume" THEN {FALSE}
    ELSE IF a = "execution.step" THEN BOOLEAN
    ELSE {paused}

\* arguments.get("filter", "changed")
filter_type(args) == IF args.filter = "" THEN "changed" ELSE args.filter

\* The filter parameter of a memory.compare command; "" for other commands.
FilterSent(a) ==
    IF a # "memory.compare" THEN ""
    ELSE IF tool = W_FDV THEN "decreased"
    ELSE filter_type(arguments)

\* Trace log max (matches Lua traceMaxLines)
TRACE_MAX_LINES == 1000

\* The count parameter of a trace.get command; 0 for the other commands
\* (the count of execution.step is the subject of frames below).
CountSent(a) == IF a = "trace.get" THEN TRACE_MAX_LINES ELSE 0

\* The enabled parameter of the breakpoint.setAutoMode command that
\* capture_write_source sends (line 1071); "" for the other commands.
EnabledSent(a) == IF a = "breakpoint.setAutoMode" THEN "False" ELSE ""

\* One send_command(a, timeout=t) made by call_tool, returning r.
send(a, t, r) ==
    /\ calls' = Append(calls, [action |-> a, timeout |-> t, error |-> r.error,
                               filter |-> FilterSent(a), count |-> CountSent(a),
                               enabled |-> EnabledSent(a)])
    /\ allOk' = (allOk /\ r.executed /\ ~r.error /\ r.object)
    /\ peerPaused' \in PeerAfter(a, r.executed, peerPaused)

\* A send_command result kept in a local of call_tool.
Kept(r) ==
    [error |-> r.error, id |-> r.id, seq |-> Len(calls) + 1, object |-> r.object]

\* result = <a send_command result that has an "error" key>
ErrorOf(sub) == [kind |-> "error", error |-> TRUE, from |-> sub.seq]

Built(k) == [kind |-> k, error |-> FALSE, from |-> 0]

\* read_state().get("isPaused", False)
ReadIsPaused(state) ==
    IF state.kind = "record" THEN GetIsPaused(state) ELSE FALSE

InitTools ==
    /\ InitTransport
    /\ InitLoopIdle
    /\ stateFile \in ToolStateFiles
    /\ now = Now0
    /\ tool = "none"
    /\ arguments = NoArguments
    /\ tpc = "idle"
    /\ locals = NoLocals
    /\ calls = <<>>
    /\ toolResult = NoToolResult
    /\ peerPaused \in BOOLEAN
    /\ pausedBefore = FALSE
    /\ recordBefore = StateAbsent
    /\ allOk = TRUE
    /\ phase1Ran = FALSE
    /\ InitPureIdle

\* call_tool(name, arguments) is entered.
call_tool(name, args) ==
    /\ tpc \in {"idle", "done"}
    /\ tool' = name
    /\ arguments' = args
    /\ tpc' = "start"
    /\ locals' = NoLocals
    /\ calls' = <<>>
    /\ toolResult' = NoToolResult
    /\ allOk' = TRUE
    /\ pausedBefore' = peerPaused
    /\ recordBefore' = stateFile
    /\ UNCHANGED <<pureVars, loopVars, transportVars, stateFile, peerPaused,
                   phase1Ran>>

Step(a, t, next) ==
    /\ \E r \in SubResults(a) : send(a, t, r)
    /\ tpc' = next
    /\ UNCHANGED <<locals, toolResult>>

\* A send_command whose result is then read with .get(...): on a result
\* that is not a dict the read raises AttributeError.
StepGet(a, t, next) ==
    /\ \E r \in SubResults(a) :
          /\ send(a, t, r)
          /\ tpc' = IF r.object THEN next ELSE "except"
    /\ UNCHANGED <<locals, toolResult>>

\* frames = min(arguments.get("frames", default), cap), the first statement
\* of the three workflows that advance frames (lines 908, 1067, 1114): it
\* raises TypeError, before any sub-call, on a frames value that cannot be
\* compared with the cap.
frames_raises(args) == args.frames = "none"

\* An exception raised where no send_command is under way.
Raise ==
    /\ tpc' = "except"
    /\ UNCHANGED <<locals, toolResult, calls, allOk, peerPaused>>

\* The restoration that resumes a peer recorded as paused, too.
fdv_restore_Always ==
    /\ tpc = "restore"
    /\ Step("execution.resume", FAST_TIMEOUT, "done")

\* emu_cheat_find_decrementing_value, lines 958-963.
fdv_restore ==
    /\ tpc = "restore"
    /\ IF ~locals.was_paused
       THEN Step("execution.resume", FAST_TIMEOUT, "done")
       ELSE /\ tpc' = "done"
            /\ UNCHANGED <<locals, toolResult, calls, allOk, peerPaused>>

\* A snapshot error that is followed by the restoration.
fdv_snapshot_ThenRestore ==
    /\ tpc = "snapshot"
    /\ \E r \in SubResults("memory.snapshot") :
          /\ send("memory.snapshot", DEFAULT_TIMEOUT, r)
          /\ locals' = [locals EXCEPT !.snap_result = Kept(r)]
          /\ IF ~r.object
             THEN /\ toolResult' = toolResult
                  /\ tpc' = "except"
             ELSE IF r.error
             THEN /\ toolResult' = ErrorOf(Kept(r))
                  /\ tpc' = "restore"
             ELSE /\ toolResult' = toolResult
                  /\ tpc' = "resume"

\* emu_cheat_find_decrementing_value, lines 921-925: the snapshot and the
\* test of its result.
fdv_snapshot ==
    /\ tpc = "snapshot"
    /\ \E r \in SubResults("memory.snapshot") :
          /\ send("memory.snapshot", DEFAULT_TIMEOUT, r)
          /\ locals' = [locals EXCEPT !.snap_result = Kept(r)]
          /\ IF ~r.object
             THEN /\ toolResult' = toolResult
                  /\ tpc' = "except"
             ELSE IF r.error
             THEN /\ toolResult' = ErrorOf(Kept(r))
                  /\ tpc' = "done"
             ELSE /\ toolResult' = toolResult
                  /\ tpc' = "resume"

\* emu_cheat_find_decrementing_value, lines 906-963.
find_decrementing_value ==
    /\ tool = W_FDV
    /\ \/ /\ tpc = "start"
          /\ IF frames_raises(arguments)
             THEN Raise
             ELSE /\ locals' = [locals EXCEPT
                                   !.was_paused = ReadIsPaused(stateFile)]
                  /\ tpc' = "pause"
                  /\ UNCHANGED <<toolResult, calls, allOk, peerPaused>>
       \/ /\ tpc = "pause"
          /\ StepGet("execution.pause", FAST_TIMEOUT, "snapshot")
       \/ fdv_snapshot
       \/ /\ tpc = "resume"
          /\ Step("execution.resume", FAST_TIMEOUT, "step")
       \/ /\ tpc = "step"
          /\ StepGet("execution.step", DEFAULT_TIMEOUT, "pause2")
       \/ /\ tpc = "pause2"
          /\ Step("execution.pause", FAST_TIMEOUT, "compare")
       \/ /\ tpc = "compare"
          /\ \E r \in SubResults("memory.compare") :
                /\ send("memory.compare", DEFAULT_TIMEOUT, r)
                /\ locals' = [locals EXCEPT !.compare_result = Kept(r)]
                /\ toolResult' = IF ~r.object THEN toolResult
                                 ELSE IF r.error THEN ErrorOf(Kept(r))
                                 ELSE Built("completed")
                /\ tpc' = IF r.object THEN "restore" ELSE "except"
       \/ fdv_restore
    /\ UNCHANGED <<pureVars, loopVars, transportVars, stateFile, tool, arguments, pausedBefore,
                   recordBefore, phase1Ran>>

\* pause, memory.snapshot, resume, then an acknowledgement: the shape shared
\* by find_value_on_event phase 1 (lines 970-981) and the narrow_candidates
\* snapshot action (lines 1008-1020).
SnapshotSteps(ack) ==
    \/ /\ tpc = "start"
       /\ Step("execution.pause", FAST_TIMEOUT, "s_snapshot")
    \/ /\ tpc = "s_snapshot"
       /\ \E r \in SubResults("memory.snapshot") :
             /\ send("memory.snapshot", DEFAULT_TIMEOUT, r)
             /\ locals' = [locals EXCEPT !.snap_result = Kept(r)]
             /\ tpc' = "s_resume"
             /\ toolResult' = toolResult
    \/ /\ tpc = "s_resume"
       /\ \E r \in SubResults("execution.resume") :
             /\ send("execution.resume", FAST_TIMEOUT, r)
             /\ toolResult' = Built(ack)
             /\ tpc' = "done"
             /\ locals' = locals

\* data of a memory.compare response that is not a list.
NOT_A_LIST == -1

\* Lengths of the data list of a memory.compare response, as far as the
\* tool looks at it: find_value_on_event slices it, narrow_candidates is
\* modelled on its own.
CompareData(r) ==
    IF tool = W_EVENT /\ r.object /\ ~r.error
    THEN {NOT_A_LIST, 0, 1, MAX_CANDIDATES, MAX_CANDIDATES + 1}
    ELSE {0}

\* The whole data list returned as candidates.
event_candidates_All(n) == n

\* len(compare_result.get("data", [])[:200])
event_candidates(n) == IF n > MAX_CANDIDATES THEN MAX_CANDIDATES ELSE n

\* pause, memory.compare, resume, then the comparison or its error: the
\* shape shared by find_value_on_event phase 2 (lines 983-1000) and the
\* narrow_candidates filter action (lines 1021-1060).
CompareSteps(built) ==
    \/ /\ tpc = "start"
       /\ Step("execution.pause", FAST_TIMEOUT, "c_compare")
    \/ /\ tpc = "c_compare"
       /\ \E r \in SubResults("memory.compare") : \E n \in CompareData(r) :
             /\ send("memory.compare", DEFAULT_TIMEOUT, r)
             /\ locals' = [locals EXCEPT !.compare_result = Kept(r), !.data = n]
             /\ tpc' = "c_resume"
             /\ toolResult' = toolResult
    \/ /\ tpc = "c_resume"
       /\ \E r \in SubResults("execution.resume") :
             /\ send("execution.resume", FAST_TIMEOUT, r)
             /\ IF ~locals.compare_result.object \/ locals.data = NOT_A_LIST
                THEN /\ toolResult' = toolResult
                     /\ locals' = locals
                     /\ tpc' = "except"
                ELSE IF locals.compare_result.error
                THEN /\ toolResult' = ErrorOf(locals.compare_result)
                     /\ locals' = locals
                     /\ tpc' = "done"
                ELSE /\ toolResult' = Built(built)
                     /\ locals' = [locals EXCEPT
                                     !.candidates = event_candidates(locals.data)]
                     /\ tpc' = "done"

\* arguments.get("phase", 1)
Phase(args) == IF args.phase = 0 THEN 1 ELSE args.phase

\* arguments.get("action", "snapshot")
NarrowAction(args) == IF args.action = "" THEN "snapshot" ELSE args.action

\* emu_cheat_find_value_on_event, lines 965-1000.
find_value_on_event ==
    /\ tool = W_EVENT
    /\ IF Phase(arguments) = 1
       THEN SnapshotSteps("snapshot_taken")
       ELSE CompareSteps("comparison_complete")
    /\ phase1Ran' = (phase1Ran \/ (Phase(arguments) = 1 /\ tpc' = "done"))
    /\ UNCHANGED <<pureVars, loopVars, transportVars, stateFile, tool, arguments,
                   pausedBefore, recordBefore>>

\* emu_cheat_narrow_candidates, lines 1002-1060.
narrow_candidates ==
    /\ tool = W_NARROW
    /\ IF NarrowAction(arguments) = "snapshot"
       THEN SnapshotSteps("snapshot")
       ELSE CompareSteps("filter")
    /\ UNCHANGED <<pureVars, loopVars, transportVars, stateFile, tool, arguments, pausedBefore,
                   recordBefore, phase1Ran>>

\* if bp_id:
Truthy(id) == id # -1 /\ id # 0

\* A last step that switches auto-pause back on in place of the removal.
capture_remove_RestoresAutoMode ==
    /\ tpc = "remove"
    /\ \E r \in SubResults("breakpoint.setAutoMode") :
          send("breakpoint.setAutoMode", FAST_TIMEOUT, r)
    /\ toolResult' = Built("summary")
    /\ tpc' = "done"
    /\ locals' = locals

\* Step 5, lines 1089-1091, and the result built after it.
capture_remove ==
    /\ tpc = "remove"
    /\ IF Truthy(locals.bp_id)
       THEN \E r \in SubResults("breakpoint.remove") :
               send("breakpoint.remove", FAST_TIMEOUT, r)
       ELSE UNCHANGED <<calls, allOk, peerPaused>>
    /\ toolResult' = Built("summary")
    /\ tpc' = "done"
    /\ locals' = locals

\* emu_debug_capture_write_source, lines 1065-1111.
capture_write_source ==
    /\ tool = W_CAPTURE
    /\ \/ /\ tpc = "start"
          /\ IF frames_raises(arguments)
             THEN Raise
             ELSE Step("breakpoint.clearHits", FAST_TIMEOUT, "autoMode")
       \/ /\ tpc = "autoMode"
          /\ Step("breakpoint.setAutoMode", FAST_TIMEOUT, "add")
       \/ /\ tpc = "add"
          /\ \E r \in SubResults("breakpoint.add") :
                /\ send("breakpoint.add", DEFAULT_TIMEOUT, r)
                /\ IF ~r.object
                   THEN /\ locals' = [locals EXCEPT !.bp_result = Kept(r)]
                        /\ toolResult' = toolResult
                        /\ tpc' = "except"
                   ELSE IF r.error
                   THEN /\ locals' = [locals EXCEPT !.bp_result = Kept(r)]
                        /\ toolResult' = ErrorOf(Kept(r))
                        /\ tpc' = "done"
                   ELSE /\ locals' = [locals EXCEPT !.bp_result = Kept(r),
                                                    !.bp_id = r.id]
                        /\ toolResult' = toolResult
                        /\ tpc' = "resume"
       \/ /\ tpc = "resume"
          /\ Step("execution.resume", FAST_TIMEOUT, "step")
       \/ /\ tpc = "step"
          /\ Step("execution.step", DEFAULT_TIMEOUT, "pause")
       \/ /\ tpc = "pause"
          /\ Step("execution.pause", FAST_TIMEOUT, "getHits")
       \/ /\ tpc = "getHits"
          /\ StepGet("breakpoint.getHits", DEFAULT_TIMEOUT, "remove")
       \/ capture_remove
    /\ UNCHANGED <<pureVars, loopVars, transportVars, stateFile, tool, arguments, pausedBefore,
                   recordBefore, phase1Ran>>

\* Tracing left running while the lines are fetched.
trace_stop_Skipped ==
    /\ tpc = "trace_stop"
    /\ tpc' = "trace_get"
    /\ UNCHANGED <<locals, toolResult, calls, allOk, peerPaused>>

\* send_command("trace.stop", timeout=FAST_TIMEOUT), line 1127.
trace_stop ==
    /\ tpc = "trace_stop"
    /\ Step("trace.stop", FAST_TIMEOUT, "trace_get")

\* emu_debug_trace_and_summarize, lines 1113-1147.
trace_and_summarize ==
    /\ tool = W_TRACE
    /\ \/ /\ tpc = "start"
          /\ IF frames_raises(arguments)
             THEN Raise
             ELSE Step("trace.clear", FAST_TIMEOUT, "trace_start")
       \/ /\ tpc = "trace_start"
          /\ Step("trace.start", FAST_TIMEOUT, "resume")
       \/ /\ tpc = "resume"
          /\ Step("execution.resume", FAST_TIMEOUT, "step")
       \/ /\ tpc = "step"
          /\ Step("execution.step", DEFAULT_TIMEOUT, "pause")
       \/ /\ tpc = "pause"
          /\ Step("execution.pause", FAST_TIMEOUT, "trace_stop")
       \/ trace_stop
       \/ /\ tpc = "trace_get"
          /\ \E r \in SubResults("trace.get") :
                /\ send("trace.get", DEFAULT_TIMEOUT, r)
                /\ toolResult' = IF r.object THEN Built("hotspots") ELSE toolResult
                /\ tpc' = IF r.object THEN "done" ELSE "except"
                /\ locals' = locals
    /\ UNCHANGED <<pureVars, loopVars, transportVars, stateFile, tool, arguments, pausedBefore,
                   recordBefore, phase1Ran>>

\* ------------------------------------------- tools that are not workflows
FREEZE_FEATURE_ENABLED == FALSE

\* emu_debug_read_memory stands for the tools that forward one command and
\* return its result (lines 748-876).
T_READ_MEMORY == "emu_debug_read_memory"
T_GET_STATE == "emu_debug_get_emulator_state"
T_FREEZE == "emu_cheat_freeze_address"
T_UNFREEZE == "emu_cheat_unfreeze_address"
T_LIST_FREEZES == "emu_cheat_list_freezes"
T_UNKNOWN == "emu_no_such_tool"

ForwardingTools == {T_READ_MEMORY}

FreezeTools == {T_FREEZE, T_UNFREEZE, T_LIST_FREEZES}

KnownTools == Workflows \cup ForwardingTools \cup {T_GET_STATE} \cup FreezeTools

ToolNames == KnownTools \cup {T_UNKNOWN}

FreezeAction(name) ==
    IF name = T_FREEZE THEN "freeze.add"
    ELSE IF name = T_UNFREEZE THEN "freeze.remove"
    ELSE "freeze.list"

\* result = send_command(a, ...): the result is returned as it is.
Forward(a, t) ==
    /\ \E r \in SubResults(a) :
          /\ send(a, t, r)
          /\ toolResult' = [kind |-> IF r.object THEN "forwarded" ELSE "not_object",
                            error |-> r.error, from |-> Len(calls) + 1]
    /\ tpc' = "done"
    /\ locals' = locals

\* result = {...} built without a send_command.
Local(k, err) ==
    /\ toolResult' = [kind |-> k, error |-> err, from |-> 0]
    /\ tpc' = "done"
    /\ UNCHANGED <<locals, calls, allOk, peerPaused>>

\* emu_debug_read_memory, lines 748-751.
forwarding_tool ==
    /\ tool \in ForwardingTools
    /\ tpc = "start"
    /\ Forward("memory.read", DEFAULT_TIMEOUT)
    /\ UNCHANGED <<pureVars, loopVars, transportVars, stateFile, tool, arguments, pausedBefore,
                   recordBefore, phase1Ran>>

\* emu_debug_get_emulator_state: result = read_state(), which is an error
\* dict when STATE_FILE cannot be read or decoded.
get_emulator_state ==
    /\ tool = T_GET_STATE
    /\ tpc = "start"
    /\ Local("state", stateFile.kind # "record")
    /\ UNCHANGED <<pureVars, loopVars, transportVars, stateFile, tool, arguments, pausedBefore,
                   recordBefore, phase1Ran>>

\* emu_cheat_freeze_address, emu_cheat_unfreeze_address and
\* emu_cheat_list_freezes, lines 881-901.
freeze_tool ==
    /\ tool \in FreezeTools
    /\ tpc = "start"
    /\ IF tool = T_FREEZE /\ ~FREEZE_FEATURE_ENABLED
       THEN Local("feature_disabled", TRUE)
       ELSE Forward(FreezeAction(tool), DEFAULT_TIMEOUT)
    /\ UNCHANGED <<pureVars, loopVars, transportVars, stateFile, tool, arguments, pausedBefore,
                   recordBefore, phase1Ran>>

\* else: result = {"error": f"Unknown tool: {name}"}
unknown_tool ==
    /\ tool \notin KnownTools
    /\ tpc = "start"
    /\ Local("unknown_tool", TRUE)
    /\ UNCHANGED <<pureVars, loopVars, transportVars, stateFile, tool, arguments, pausedBefore,
                   recordBefore, phase1Ran>>

\* An except clause that lets the exception go on to the caller.
call_tool_except_Reraise ==
    /\ tpc = "except"
    /\ tpc' = "raised"
    /\ UNCHANGED <<pureVars, loopVars, transportVars, stateFile, tool, arguments, locals,
                   calls, toolResult, peerPaused, pausedBefore, recordBefore,
                   allOk, phase1Ran>>

\* except Exception as e: result = {"error": str(e)}
call_tool_except ==
    /\ tpc = "except"
    /\ toolResult' = [kind |-> "exception", error |-> TRUE, from |-> 0]
    /\ tpc' = "done"
    /\ UNCHANGED <<pureVars, loopVars, transportVars, stateFile, tool, arguments, locals,
                   calls, peerPaused, pausedBefore, recordBefore, allOk,
                   phase1Ran>>

\* Between tool calls the peer rewrites the liveness record.
PeerWritesStateTools ==
    /\ tpc \in {"idle", "done"}
    /\ stateFile' \in ToolStateFiles \ {stateFile}
    /\ UNCHANGED <<transportVars, toolVars, pureVars, loopVars>>

NextTools ==
    \/ \E name \in ToolNames : \E args \in ArgumentsOf(name) : call_tool(name, args)
    \/ forwarding_tool
    \/ get_emulator_state
    \/ freeze_tool
    \/ unknown_tool
    \/ find_decrementing_value
    \/ find_value_on_event
    \/ narrow_candidates
    \/ capture_write_source
    \/ trace_and_summarize
    \/ call_tool_except
    \/ PeerWritesStateTools

SpecTools == InitTools /\ [][NextTools]_vars

\* ------------------------------------------- liveness monitor on its own
\* Ages of the liveness record around the two thresholds; -5 is a timestamp
\* ahead of the clock.
AliveAges == {-5, 0, 29, 30, 31, 119, 120, 121, 150}

Nows == {Now0, Now0 + 1}

AliveStateFiles ==
    {StateAbsent, StateUnreadable}
    \cup { StateRecord("num", Now0 - a, pk, p) :
             a \in AliveAges, pk \in {"bool", "missing"}, p \in BOOLEAN }
    \cup { StateRecord(tk, 0, "bool", p) : tk \in {"missing", "bad"}, p \in BOOLEAN }

InitAlive ==
    /\ InitTransport
    /\ InitLoopIdle
    /\ InitToolsIdle
    /\ InitPureIdle
    /\ stateFile \in AliveStateFiles
    /\ now \in Nows

\* alive, message = check_bizhawk_alive()
CheckAliveCall ==
    /\ pc = "idle"
    /\ LET r == check_bizhawk_alive(stateFile, now)
       IN  /\ alive' = r.alive
           /\ message' = r.detail
           /\ pc' = IF r.raised THEN "raised" ELSE "checked"
    /\ UNCHANGED <<command_id, socket_connection, stateFile, now, cmdFile,
                   respFile, sockIn, peerInbox, action, timeout, cmd_id, i,
                   max_polls, slept, result, ids, sentMax, chanOps, epoch,
                   openSockets, toolVars, pureVars, loopVars>>

\* The peer rewrites the record and time passes before the next check.
NextRecord ==
    /\ pc = "checked"
    /\ pc' = "idle"
    /\ stateFile' \in AliveStateFiles
    /\ now' \in Nows
    /\ alive' = FALSE
    /\ message' = NoDetail
    /\ UNCHANGED <<command_id, socket_connection, cmdFile, respFile, sockIn,
                   peerInbox, action, timeout, cmd_id, i, max_polls, slept,
                   result, ids, sentMax, chanOps, epoch, openSockets,
                   toolVars, pureVars, loopVars>>

NextAlive == CheckAliveCall \/ NextRecord

SpecAlive == InitAlive /\ [][NextAlive]_vars

\* ------------------------------------------------------------ address codec
\* A token is what a caller passes as an address: a Python int or a string,
\* a string being a sequence of characters.
MaxTokenLen == 3

Alphabet == {"$", "0", "x", "X", "1", "a", "A", "-", " ", "g", "_"}

IntTokens == (-2 .. 17) \cup {255, 4095, 4096, 65535, 65536, 1048575}

IntToken(n) == [isInt |-> TRUE, n |-> n, s |-> <<>>]

StrToken(s) == [isInt |-> FALSE, n |-> 0, s |-> s]

Strings(len) == UNION { [1..k -> Alphabet] : k \in 0..len }

Tokens == { IntToken(n) : n \in IntTokens } \cup { StrToken(s) : s \in Strings(MaxTokenLen) }

Whitespace == {" ", "\t", "\n", "\r"}

HexLetters == {"a", "b", "c", "d", "e", "f", "A", "B", "C", "D", "E", "F"}

\* The value of a character as a digit; 99 for a character that is no digit
\* in base 10 or 16.
DigitValue(c) ==
    CASE c = "0" -> 0 [] c = "1" -> 1 [] c = "2" -> 2 [] c = "3" -> 3
      [] c = "4" -> 4 [] c = "5" -> 5 [] c = "6" -> 6 [] c = "7" -> 7
      [] c = "8" -> 8 [] c = "9" -> 9
      [] c \in {"a", "A"} -> 10 [] c \in {"b", "B"} -> 11
      [] c \in {"c", "C"} -> 12 [] c \in {"d", "D"} -> 13
      [] c \in {"e", "E"} -> 14 [] c \in {"f", "F"} -> 15
      [] OTHER -> 99

RECURSIVE LStrip(_)
LStrip(s) == IF s # <<>> /\ Head(s) \in Whitespace THEN LStrip(Tail(s)) ELSE s

RECURSIVE RStrip(_)
RStrip(s) ==
    IF s # <<>> /\ s[Len(s)] \in Whitespace
    THEN RStrip(SubSeq(s, 1, Len(s) - 1))
    ELSE s

\* str.strip()
Strip(s) == RStrip(LStrip(s))

ValueError == [raised |-> TRUE, value |-> 0]

IntValue(n) == [raised |-> FALSE, value |-> n]

\* The digit part of an integer literal: digits of the base, single
\* underscores only between digits.
DigitsValid(d, base) ==
    /\ d # <<>>
    /\ d[1] # "_"
    /\ d[Len(d)] # "_"
    /\ \A k \in 1..(Len(d) - 1) : d[k] = "_" => d[k + 1] # "_"
    /\ \A k \in DOMAIN d : d[k] = "_" \/ DigitValue(d[k]) < base

RECURSIVE DigitsValue(_, _, _)
DigitsValue(d, base, acc) ==
    IF d = <<>> THEN acc
    ELSE IF Head(d) = "_" THEN DigitsValue(Tail(d), base, acc)
    ELSE DigitsValue(Tail(d), base, acc * base + DigitValue(Head(d)))

\* Python's int(s, base) on a string, base 10 or 16: surrounding whitespace
\* is dropped, a sign is accepted, base 16 accepts a 0x/0X prefix.
int(s, base) ==
    LET t == Strip(s)
        signed == t # <<>> /\ t[1] \in {"+", "-"}
        u == IF signed THEN Tail(t) ELSE t
        prefixed == base = 16 /\ Len(u) >= 2 /\ u[1] = "0" /\ u[2] \in {"x", "X"}
        v == IF prefixed THEN SubSeq(u, 3, Len(u)) ELSE u
        d == IF prefixed /\ v # <<>> /\ v[1] = "_" THEN Tail(v) ELSE v
        magnitude == DigitsValue(d, base, 0)
    IN  IF ~DigitsValid(d, base) THEN ValueError
        ELSE IntValue(IF signed /\ t[1] = "-" THEN 0 - magnitude ELSE magnitude)

HasHexLetter(s) == \E k \in DOMAIN s : s[k] \in HexLetters

normalize_address_AlwaysHex(addr) ==
    IF addr.isInt THEN IntValue(addr.n)
    ELSE LET a == Strip(addr.s)
         IN  IF a # <<>> /\ a[1] = "$" THEN int(Tail(a), 16)
             ELSE IF Len(a) >= 2 /\ a[1] = "0" /\ a[2] \in {"x", "X"}
                  THEN int(SubSeq(a, 3, Len(a)), 16)
             ELSE int(a, 16)

\* normalize_address(addr): the value, or ValueError raised to the caller.
normalize_address(addr) ==
    IF addr.isInt THEN IntValue(addr.n)
    ELSE LET a == Strip(addr.s)
             tried == IF HasHexLetter(a) THEN int(a, 16) ELSE int(a, 10)
         IN  IF a # <<>> /\ a[1] = "$" THEN int(Tail(a), 16)
             ELSE IF Len(a) >= 2 /\ a[1] = "0" /\ a[2] \in {"x", "X"}
                  THEN int(SubSeq(a, 3, Len(a)), 16)
             ELSE IF ~tried.raised THEN tried ELSE int(a, 16)

HexChar(d) ==
    CASE d = 0 -> "0" [] d = 1 -> "1" [] d = 2 -> "2" [] d = 3 -> "3"
      [] d = 4 -> "4" [] d = 5 -> "5" [] d = 6 -> "6" [] d = 7 -> "7"
      [] d = 8 -> "8" [] d = 9 -> "9" [] d = 10 -> "A" [] d = 11 -> "B"
      [] d = 12 -> "C" [] d = 13 -> "D" [] d = 14 -> "E" [] d = 15 -> "F"

\* The upper-case hexadecimal digits of n >= 0.
RECURSIVE HexDigits(_)
HexDigits(n) ==
    IF n < 16 THEN <<HexChar(n)>>
    ELSE Append(HexDigits(n \div 16), HexChar(n % 16))

RECURSIVE ZeroPad(_, _)
ZeroPad(s, width) == IF Len(s) >= width THEN s ELSE ZeroPad(<<"0">> \o s, width)

format_address_NoPadding(addr) ==
    <<"$">> \o (IF addr < 0 THEN <<"-">> \o HexDigits(0 - addr) ELSE HexDigits(addr))

\* Always exactly four digits: the low 16 bits of the address.
format_address_FourDigits(addr) ==
    <<"$">> \o (IF addr < 0
                THEN <<"-">> \o ZeroPad(HexDigits(0 - addr), 3)
                ELSE ZeroPad(HexDigits(addr % 65536), 4))

\* format_address(addr) = f"${addr:04X}": the sign counts in the width of 4.
format_address(addr) ==
    <<"$">> \o (IF addr < 0
                THEN <<"-">> \o ZeroPad(HexDigits(0 - addr), 3)
                ELSE ZeroPad(HexDigits(addr), 4))

\* origin is the token the caller started from.
Normalize(t) ==
    [fn |-> "normalize_address", token |-> t, canonical |-> FALSE, origin |-> t]

InitAddr ==
    /\ InitTransport
    /\ InitLoopIdle
    /\ InitToolsIdle
    /\ stateFile = StateAbsent
    /\ now = Now0
    /\ fnArgs \in { Normalize(t) : t \in Tokens }
    /\ fnResult = NoReturn

\* addr_int = normalize_address(addr)
normalize_address_call ==
    /\ fnArgs.fn = "normalize_address"
    /\ fnResult = NoReturn
    /\ LET r == normalize_address(fnArgs.token)
       IN  fnResult' = [kind |-> IF r.raised THEN "raised" ELSE "int",
                        value |-> r.value, text |-> <<>>]
    /\ UNCHANGED <<transportVars, stateFile, toolVars, loopVars, fnArgs>>

\* format_address(addr_int)
format_address_call ==
    /\ fnResult # NoReturn
    /\ fnResult.kind = "int"
    /\ fnResult' = [fnResult EXCEPT !.kind = "text",
                                    !.text = format_address(fnResult.value)]
    /\ UNCHANGED <<transportVars, stateFile, toolVars, loopVars, fnArgs>>

\* A canonical string that format_address produced is passed back in as an
\* address.
CanonicalAsToken ==
    /\ fnResult # NoReturn
    /\ fnResult.kind = "text"
    /\ ~fnArgs.canonical
    /\ fnArgs' = [fn |-> "normalize_address", token |-> StrToken(fnResult.text),
                  canonical |-> TRUE, origin |-> fnArgs.token]
    /\ fnResult' = NoReturn
    /\ UNCHANGED <<transportVars, stateFile, toolVars, loopVars>>

NextAddr == normalize_address_call \/ format_address_call \/ CanonicalAsToken

SpecAddr == InitAddr /\ [][NextAddr]_vars

\* ------------------------------------- find_decrementing_value: the filter
\* The candidate list of a memory.compare response is a short pattern of
\* candidate records repeated, so that lists longer than MAX_CANDIDATES occur.
MaxPattern == 2


Repeats == {1, MAX_CANDIDATES + 1}

\* A candidate record; hasDiff / hasOld say whether the key is present.
CandidateKinds ==
    { [hasDiff |-> TRUE, diff |-> d, hasOld |-> TRUE, old |-> o] :
        d \in {-2, -1, 0}, o \in {3, 5} }
    \cup { [hasDiff |-> FALSE, diff |-> 0, hasOld |-> TRUE, old |-> 3],
           [hasDiff |-> TRUE, diff |-> -1, hasOld |-> FALSE, old |-> 0] }

Patterns(len) == UNION { [1..k -> CandidateKinds] : k \in 0..len }

\* The pattern repeated n times; each record carries its own address, the
\* position in the peer's list.
Repeated(pattern, n) ==
    [k \in 1..(Len(pattern) * n) |->
        [address |-> k,
         hasDiff |-> pattern[((k - 1) % Len(pattern)) + 1].hasDiff,
         diff |-> pattern[((k - 1) % Len(pattern)) + 1].diff,
         hasOld |-> pattern[((k - 1) % Len(pattern)) + 1].hasOld,
         old |-> pattern[((k - 1) % Len(pattern)) + 1].old]]

MinDecrements == {1, 2}

\* arguments.get("initialValue"): None or a value.
InitialValues ==
    {[given |-> FALSE, value |-> 0], [given |-> TRUE, value |-> 3],
     [given |-> TRUE, value |-> 5]}

Min(a, b) == IF a < b THEN a ELSE b

fdv_filter_StrictlyBelow(candidates, min_decrement, initial_value) ==
    LET byDiff == SelectSeq(candidates,
                    LAMBDA c : (IF c.hasDiff THEN c.diff ELSE 0) < 0 - min_decrement)
        byOld == IF initial_value.given
                 THEN SelectSeq(byDiff,
                        LAMBDA c : c.hasOld /\ c.old = initial_value.value)
                 ELSE byDiff
    IN  SubSeq(byOld, 1, Min(MAX_CANDIDATES, Len(byOld)))

\* filtered: by diff, then by old if initialValue is given, then cut.
fdv_filter(candidates, min_decrement, initial_value) ==
    LET byDiff == SelectSeq(candidates,
                    LAMBDA c : (IF c.hasDiff THEN c.diff ELSE 0) <= 0 - min_decrement)
        byOld == IF initial_value.given
                 THEN SelectSeq(byDiff,
                        LAMBDA c : c.hasOld /\ c.old = initial_value.value)
                 ELSE byDiff
    IN  SubSeq(byOld, 1, Min(MAX_CANDIDATES, Len(byOld)))

InitFdv ==
    /\ InitTransport
    /\ InitLoopIdle
    /\ InitToolsIdle
    /\ stateFile = StateAbsent
    /\ now = Now0
    /\ fnArgs \in { [fn |-> "fdv_filter", candidates |-> Repeated(p, n),
                     min_decrement |-> m, initial_value |-> v] :
                      p \in Patterns(MaxPattern), n \in Repeats,
                      m \in MinDecrements, v \in InitialValues }
    /\ fnResult = NoReturn

\* The compare step succeeded: the result is built from the candidates.
fdv_filter_call ==
    /\ fnArgs.fn = "fdv_filter"
    /\ fnResult = NoReturn
    /\ LET filtered == fdv_filter(fnArgs.candidates, fnArgs.min_decrement,
                                  fnArgs.initial_value)
       IN  fnResult' = [kind |-> "result", candidates |-> filtered,
                        totalFound |-> Len(fnArgs.candidates),
                        afterFilter |-> Len(filtered)]
    /\ UNCHANGED <<transportVars, stateFile, toolVars, loopVars, fnArgs>>

NextFdv == fdv_filter_call

SpecFdv == InitFdv /\ [][NextFdv]_vars

\* ------------------------------------------ narrow_candidates: the filter
MaxAddresses == 2

MAX_DETAILS == 50

\* Addresses a caller passes: 10 in two styles, 20, 16 as an int, and a token
\* that does not normalize.
AddressTokens ==
    {StrToken(<<"$", "0", "a">>), StrToken(<<"1", "0">>),
     StrToken(<<"0", "x", "1", "4">>), StrToken(<<"g">>), IntToken(16)}

AddressPatterns(len) == UNION { [1..k -> AddressTokens] : k \in 0..len }

NarrowRepeats == {1, MAX_DETAILS \div 2 + 1}

RepeatedTokens(pattern, n) ==
    [k \in 1..(Len(pattern) * n) |-> pattern[((k - 1) % Len(pattern)) + 1]]

\* Records of compare_result["data"]; hasAddress says whether the key is
\* present. Address 10 occurs with two different values.
ChangedKinds ==
    {[hasAddress |-> TRUE, address |-> 10, new |-> 1],
     [hasAddress |-> TRUE, address |-> 10, new |-> 9],
     [hasAddress |-> TRUE, address |-> 20, new |-> 2],
     [hasAddress |-> FALSE, address |-> 0, new |-> 3]}

\* compare_result["data"]: no record, one record, or two different records.
ChangedData ==
    {<<>>} \cup { <<c>> : c \in ChangedKinds }
           \cup ({ <<c, d>> : c \in ChangedKinds, d \in ChangedKinds }
                    \ { <<c, c>> : c \in ChangedKinds })

\* changed_addr_ints
ChangedAddrInts(changed_data) ==
    { changed_data[k].address : k \in {m \in DOMAIN changed_data : changed_data[m].hasAddress} }

\* The first record of changed_data with this address.
FirstDetail(changed_data, addr_int) ==
    LET hits == {k \in DOMAIN changed_data :
                    changed_data[k].hasAddress /\ changed_data[k].address = addr_int}
    IN  changed_data[CHOOSE k \in hits : \A m \in hits : k <= m]

\* The locals of the for loop: i is the position of the next address.
LoopStart ==
    [kind |-> "loop", i |-> 1, narrowed |-> <<>>, narrowed_details |-> <<>>,
     originalCount |-> 0, narrowedCount |-> 0, details |-> <<>>]

NarrowIteration_KeepCallerText(addr, changed_data, acc) ==
    LET r == normalize_address(addr)
    IN  IF ~r.raised /\ r.value \in ChangedAddrInts(changed_data)
        THEN [acc EXCEPT !.i = @ + 1,
                         !.narrowed = Append(@, addr.s),
                         !.narrowed_details =
                             Append(@, FirstDetail(changed_data, r.value))]
        ELSE [acc EXCEPT !.i = @ + 1]

NarrowIteration_StopAtInvalid(addr, changed_data, acc) ==
    LET r == normalize_address(addr)
    IN  IF r.raised THEN [acc EXCEPT !.i = Len(fnArgs.addresses) + 1]
        ELSE IF r.value \in ChangedAddrInts(changed_data)
        THEN [acc EXCEPT !.i = @ + 1,
                         !.narrowed = Append(@, format_address(r.value)),
                         !.narrowed_details =
                             Append(@, FirstDetail(changed_data, r.value))]
        ELSE [acc EXCEPT !.i = @ + 1]

\* One iteration of "for addr in addresses": an address that raises in
\* normalize_address, or is not in changed_addr_ints, is skipped.
NarrowIteration(addr, changed_data, acc) ==
    LET r == normalize_address(addr)
    IN  IF ~r.raised /\ r.value \in ChangedAddrInts(changed_data)
        THEN [acc EXCEPT !.i = @ + 1,
                         !.narrowed = Append(@, format_address(r.value)),
                         !.narrowed_details =
                             Append(@, FirstDetail(changed_data, r.value))]
        ELSE [acc EXCEPT !.i = @ + 1]

\* The result of the filter action on compare success.
NarrowResult(addresses, acc) ==
    [acc EXCEPT !.kind = "result",
                !.originalCount = Len(addresses),
                !.narrowedCount = Len(acc.narrowed),
                !.details = SubSeq(acc.narrowed_details, 1,
                                   Min(MAX_DETAILS, Len(acc.narrowed_details)))]

\* pattern and repeats say how the caller's list was made.
InitNarrow ==
    /\ InitTransport
    /\ InitLoopIdle
    /\ InitToolsIdle
    /\ stateFile = StateAbsent
    /\ now = Now0
    /\ fnArgs \in { [fn |-> "narrow_filter", pattern |-> p, repeats |-> n,
                     addresses |-> RepeatedTokens(p, n), changed_data |-> d] :
                      p \in AddressPatterns(MaxAddresses), n \in NarrowRepeats,
                      d \in ChangedData }
    /\ fnResult = LoopStart

narrow_filter_loop ==
    /\ fnArgs.fn = "narrow_filter"
    /\ fnResult.kind = "loop"
    /\ fnResult.i <= Len(fnArgs.addresses)
    /\ fnResult' = NarrowIteration(fnArgs.addresses[fnResult.i],
                                   fnArgs.changed_data, fnResult)
    /\ UNCHANGED <<transportVars, stateFile, toolVars, loopVars, fnArgs>>

narrow_filter_result ==
    /\ fnArgs.fn = "narrow_filter"
    /\ fnResult.kind = "loop"
    /\ fnResult.i > Len(fnArgs.addresses)
    /\ fnResult' = NarrowResult(fnArgs.addresses, fnResult)
    /\ UNCHANGED <<transportVars, stateFile, toolVars, loopVars, fnArgs>>

NextNarrow == narrow_filter_loop \/ narrow_filter_result

SpecNarrow == InitNarrow /\ [][NextNarrow]_vars

\* --------------------------------- capture_write_source: the aggregation
MaxHits == 3

MAX_SITES == 20

\* hit.get("PC", "unknown") of a hit without a PC; the PCs of the other hits
\* are positive.
UNKNOWN_PC == -1

\* A breakpoint hit; hasPC says whether the key "PC" is present.
HitKinds ==
    { [hasPC |-> TRUE, PC |-> p, value |-> v] : p \in {100, 200}, v \in {1, 2} }
    \cup { [hasPC |-> FALSE, PC |-> 0, value |-> 1] }

HitPatterns(len) == UNION { [1..k -> HitKinds] : k \in 0..len }

\* n hits from n different code sites, one hit each.
OtherSites(n) == [k \in 1..n |-> [hasPC |-> TRUE, PC |-> k, value |-> 0]]

\* The hit lists: a short pattern alone, or with hits from MAX_SITES other
\* sites before or after it, so that more than MAX_SITES sites occur.
HitLists(len) ==
    UNION { {p, OtherSites(MAX_SITES) \o p, p \o OtherSites(MAX_SITES)} :
              p \in HitPatterns(len) }

KeyOf(hit) == IF hit.hasPC THEN hit.PC ELSE UNKNOWN_PC

NewEntry(key) == [pc |-> key, count |-> 0, hasLast |-> FALSE, lastValue |-> 0]

UpdateEntry_KeepFirstValue(entry, hit) ==
    [entry EXCEPT !.count = @ + 1, !.hasLast = TRUE,
                  !.lastValue = IF entry.hasLast THEN @ ELSE hit.value]

\* pc_counts[pc]["count"] += 1; pc_counts[pc]["lastValue"] = hit.get("value")
UpdateEntry(entry, hit) ==
    [entry EXCEPT !.count = @ + 1, !.hasLast = TRUE, !.lastValue = hit.value]

\* The for loop over hits; pc_counts keeps its entries in insertion order.
RECURSIVE Aggregate(_, _)
Aggregate(hits, pc_counts) ==
    IF hits = <<>> THEN pc_counts
    ELSE LET key == KeyOf(Head(hits))
             known == \E j \in DOMAIN pc_counts : pc_counts[j].pc = key
             withKey == IF known THEN pc_counts
                        ELSE Append(pc_counts, NewEntry(key))
             at == CHOOSE j \in DOMAIN withKey : withKey[j].pc = key
         IN  Aggregate(Tail(hits),
                       [withKey EXCEPT ![at] = UpdateEntry(@, Head(hits))])

\* e placed before the entries whose count is equal.
InsertByCount_BeforeEquals(sorted, e) ==
    LET ahead == Cardinality({j \in DOMAIN sorted : sorted[j].count > e.count})
    IN  SubSeq(sorted, 1, ahead) \o <<e>> \o SubSeq(sorted, ahead + 1, Len(sorted))

\* e placed behind every entry whose count is not smaller.
InsertByCount(sorted, e) ==
    LET ahead == Cardinality({j \in DOMAIN sorted : sorted[j].count >= e.count})
    IN  SubSeq(sorted, 1, ahead) \o <<e>> \o SubSeq(sorted, ahead + 1, Len(sorted))

\* sorted(..., key=count, reverse=True): stable, equal counts keep their
\* order.
RECURSIVE SortedByCount(_, _)
SortedByCount(entries, sorted) ==
    IF entries = <<>> THEN sorted
    ELSE SortedByCount(Tail(entries), InsertByCount(sorted, Head(entries)))

\* Step 6 and the result of capture_write_source.
capture_summary(hits) ==
    LET pc_counts == Aggregate(hits, <<>>)
        sorted == SortedByCount(pc_counts, <<>>)
    IN  [kind |-> "result",
         pc_counts |-> pc_counts,
         totalHits |-> Len(hits),
         uniqueSites |-> Len(pc_counts),
         hits |-> SubSeq(sorted, 1, Min(MAX_SITES, Len(sorted)))]

\* ---------------------------------- trace_and_summarize: the aggregation
DEFAULT_TOP_N == 20

\* The asm of an entry without one.
UNKNOWN_ASM == "???"

\* A trace entry; hasPc says whether the key "pc" is present. One pc occurs
\* with two instruction texts.
EntryKinds ==
    { [hasPc |-> TRUE, pc |-> p, asm |-> a] : p \in {100, 200}, a \in {"LDA", "STA"} }
    \cup { [hasPc |-> FALSE, pc |-> 0, asm |-> UNKNOWN_ASM] }

EntryPatterns(len) == UNION { [1..k -> EntryKinds] : k \in 0..len }

\* n entries from n different addresses.
OtherEntries(n) == [k \in 1..n |-> [hasPc |-> TRUE, pc |-> k, asm |-> "NOP"]]

EntryLists(len) ==
    UNION { {p, OtherEntries(DEFAULT_TOP_N) \o p, p \o OtherEntries(DEFAULT_TOP_N)} :
              p \in EntryPatterns(len) }

\* What the caller put under "topN": nothing, null, or an integer.
TopNArguments ==
    {[kind |-> "missing", n |-> 0], [kind |-> "none", n |-> 0]}
    \cup {[kind |-> "int", n |-> n] : n \in {-1, 0, 1, 2}}

\* entry.get("pc", "unknown")
EntryKey(entry) == IF entry.hasPc THEN entry.pc ELSE UNKNOWN_PC

\* The for loop over entries, lines 1132-1138: a new pc gets count 0 and the
\* asm of this entry as mnemonic; then its count goes up by one.
RECURSIVE TraceAggregate(_, _)
TraceAggregate(entries, pc_counts) ==
    IF entries = <<>> THEN pc_counts
    ELSE LET key == EntryKey(Head(entries))
             known == \E j \in DOMAIN pc_counts : pc_counts[j].pc = key
             withKey == IF known THEN pc_counts
                        ELSE Append(pc_counts,
                                    [pc |-> key, count |-> 0,
                                     mnemonic |-> Head(entries).asm])
             at == CHOOSE j \in DOMAIN withKey : withKey[j].pc = key
         IN  TraceAggregate(Tail(entries),
                            [withKey EXCEPT ![at].count = @ + 1])

\* s[:n] of Python: a negative n counts from the end, None takes all.
Slice(s, top) ==
    IF top.kind = "none" THEN s
    ELSE LET n == IF top.kind = "missing" THEN DEFAULT_TOP_N ELSE top.n
         IN  IF n >= 0 THEN SubSeq(s, 1, Min(n, Len(s)))
             ELSE SubSeq(s, 1, Max(Len(s) + n, 0))

\* Step 4 and the result of trace_and_summarize.
trace_summary(entries, top_n) ==
    LET pc_counts == TraceAggregate(entries, <<>>)
        sorted == SortedByCount(pc_counts, <<>>)
    IN  [kind |-> "result",
         pc_counts |-> pc_counts,
         instructionsLogged |-> Len(entries),
         uniqueAddresses |-> Len(pc_counts),
         hotspots |-> Slice(sorted, top_n)]

InitCapture ==
    /\ InitTransport
    /\ InitLoopIdle
    /\ InitToolsIdle
    /\ stateFile = StateAbsent
    /\ now = Now0
    /\ fnArgs \in
          { [fn |-> "capture_summary", hits |-> h] : h \in HitLists(MaxHits) }
          \cup { [fn |-> "trace_summary", entries |-> e, topN |-> t] :
                   e \in EntryLists(MaxHits), t \in TopNArguments }
    /\ fnResult = NoReturn

capture_summary_call ==
    /\ fnArgs.fn = "capture_summary"
    /\ fnResult = NoReturn
    /\ fnResult' = capture_summary(fnArgs.hits)
    /\ UNCHANGED <<transportVars, stateFile, toolVars, loopVars, fnArgs>>

trace_summary_call ==
    /\ fnArgs.fn = "trace_summary"
    /\ fnResult = NoReturn
    /\ fnResult' = trace_summary(fnArgs.entries, fnArgs.topN)
    /\ UNCHANGED <<transportVars, stateFile, toolVars, loopVars, fnArgs>>

NextCapture == capture_summary_call \/ trace_summary_call

SpecCapture == InitCapture /\ [][NextCapture]_vars

\* ------------------------------------------------------------ frame counts
\* frames = min(arguments.get("frames", default), cap) in the three
\* workflows that advance frames, the count=frames of their execution.step
\* and the frames field of their result.
MaxFrameRequest == 700   \* largest frames argument a caller passes in the model

FrameWorkflows == {W_FDV, W_CAPTURE, W_TRACE}

\* What the caller put under "frames": nothing, an integer, or a value that
\* min() cannot compare with an integer (None, a string).
FrameArguments ==
    {[kind |-> "missing", n |-> 0], [kind |-> "none", n |-> 0]}
    \cup {[kind |-> "int", n |-> n] : n \in -1..MaxFrameRequest}

DefaultFrames(name) == IF name = W_CAPTURE THEN 180 ELSE 60

FramesCap(name) == IF name = W_CAPTURE THEN 600 ELSE 300

\* min(a, b) of Python on two integers.
min(a, b) == IF b < a THEN b ELSE a

TypeError == [raised |-> TRUE, value |-> 0]

\* frames without the cap.
frames_Uncapped(name, arg) ==
    IF arg.kind = "missing" THEN IntValue(DefaultFrames(name))
    ELSE IF arg.kind = "int" THEN IntValue(arg.n)
    ELSE TypeError

\* Lines 908, 1067 and 1114.
frames(name, arg) ==
    IF arg.kind = "missing" THEN IntValue(min(DefaultFrames(name), FramesCap(name)))
    ELSE IF arg.kind = "int" THEN IntValue(min(arg.n, FramesCap(name)))
    ELSE TypeError

InitFrames ==
    /\ InitTransport
    /\ InitLoopIdle
    /\ InitToolsIdle
    /\ stateFile = StateAbsent
    /\ now = Now0
    /\ fnArgs \in {[fn |-> "frames", name |-> w, frames |-> a] :
                     w \in FrameWorkflows, a \in FrameArguments}
    /\ fnResult = NoReturn

\* The first statement of the workflow: the local frames, or TypeError
\* raised to the except clause of call_tool.
frames_call ==
    /\ fnArgs.fn = "frames"
    /\ fnResult = NoReturn
    /\ LET r == frames(fnArgs.name, fnArgs.frames)
       IN  fnResult' = [kind |-> IF r.raised THEN "raised" ELSE "local",
                        frames |-> r.value, count |-> 0, reported |-> 0]
    /\ UNCHANGED <<transportVars, stateFile, toolVars, loopVars, fnArgs>>

\* send_command("execution.step", count=frames, stepType="frame")
frames_step ==
    /\ fnResult # NoReturn
    /\ fnResult.kind = "local"
    /\ fnResult' = [fnResult EXCEPT !.kind = "stepped", !.count = fnResult.frames]
    /\ UNCHANGED <<transportVars, stateFile, toolVars, loopVars, fnArgs>>

\* result = {..., "framesAdvanced": frames, ...} or "framesTraced": frames
frames_result ==
    /\ fnResult # NoReturn
    /\ fnResult.kind = "stepped"
    /\ fnResult' = [fnResult EXCEPT !.kind = "result", !.reported = fnResult.frames]
    /\ UNCHANGED <<transportVars, stateFile, toolVars, loopVars, fnArgs>>

NextFrames == frames_call \/ frames_step \/ frames_result

SpecFrames == InitFrames /\ [][NextFrames]_vars

\* --------------------------------------------------------------- event loop
\* asyncio.run(main()) runs every call_tool coroutine on one thread.  The
\* server makes a task of each tools/call request; the loop gives the thread
\* to a task only while no coroutine has it, and a coroutine gives it back
\* where it awaits or returns.
MaxSends == 2        \* send_command calls one modelled invocation makes

LoopStateFiles == {StateAbsent, StateRecord("num", Now0 - 1, "bool", FALSE)}

\* Positions between the entry of call_tool and its return.
InsidePositions == {"check", "socket", "sendall", "recv", "file", "after"}

Inside(t) == tasks[t].pos \in InsidePositions

\* call_tool that awaits the response of the peer.
Suspends_WhileWaiting(pos) == pos = "recv"

\* Whether the coroutine awaits at a position: call_tool and the functions
\* it calls contain no await; time.sleep and the socket calls block.
Suspends(pos) == FALSE

\* Who has the thread after task t moved to pos.
Handover(t, pos) == IF pos = "returned" \/ Suspends(pos) THEN 0 ELSE t

MoveTo(t, pos) ==
    /\ tasks' = [tasks EXCEPT ![t].pos = pos]
    /\ running' = Handover(t, pos)

\* cmd_id = get_next_id() in task t, which then moves to pos.
AllocateAndMove(t, pos) ==
    /\ command_id' = get_next_id(command_id)
    /\ tasks' = [tasks EXCEPT ![t].pos = pos,
                              ![t].cmd_id = get_next_id(command_id)]
    /\ running' = Handover(t, pos)

\* close_socket_connection()
Teardown ==
    /\ openSockets' = IF socket_connection # "None"
                      THEN openSockets - 1 ELSE openSockets
    /\ socket_connection' = "None"
    /\ sockIn' = Artifact("absent")
    /\ peerInbox' = NoCommand
    /\ wire' = "none"

\* What no step of the loop specification changes.
loopFrame == <<stateFile, now, respFile, pc, action, timeout, alive, message,
               cmd_id, i, max_polls, slept, result, ids, sentMax, chanOps,
               epoch, toolVars, pureVars>>

InitLoop ==
    /\ InitTransport
    /\ InitLoopIdle
    /\ InitToolsIdle
    /\ InitPureIdle
    /\ stateFile \in LoopStateFiles
    /\ now = Now0

\* A tools/call request arrives and the server makes a task of it.
loop_request(t) ==
    /\ tasks[t].pos \in {"none", "returned"}
    /\ tasks' = [tasks EXCEPT ![t] = [NoTask EXCEPT !.pos = "ready"]]
    /\ UNCHANGED <<running, wire, command_id, socket_connection, openSockets,
                   sockIn, peerInbox, cmdFile, loopFrame>>

\* The loop gives the thread to a task: a new one enters call_tool, a
\* suspended one goes on where it awaited.
loop_resume(t) ==
    /\ running = 0
    /\ tasks[t].pos = "ready" \/ Inside(t)
    /\ tasks[t].pos = "ready" => command_id + 2 <= MaxId   \* ids for one send
    /\ tasks' = [tasks EXCEPT ![t].pos = IF @ = "ready" THEN "check" ELSE @]
    /\ running' = t
    /\ UNCHANGED <<wire, command_id, socket_connection, openSockets, sockIn,
                   peerInbox, cmdFile, loopFrame>>

\* send_command, lines 262-265.
task_check(t) ==
    /\ running = t
    /\ tasks[t].pos = "check"
    /\ MoveTo(t, IF check_bizhawk_alive(stateFile, now).alive
                 THEN "socket" ELSE "after")
    /\ UNCHANGED <<wire, command_id, socket_connection, openSockets, sockIn,
                   peerInbox, cmdFile, loopFrame>>

\* get_socket_connection and the id allocation of send_command_socket.
task_connect(t) ==
    /\ running = t
    /\ tasks[t].pos = "socket"
    /\ \/ /\ socket_connection # "None"
          /\ AllocateAndMove(t, "sendall")
          /\ UNCHANGED <<socket_connection, openSockets, sockIn, peerInbox, wire>>
       \/ /\ socket_connection = "None"       \* connect() succeeds
          /\ socket_connection' = "open"
          /\ openSockets' = openSockets + 1
          /\ sockIn' = Artifact("absent")
          /\ peerInbox' = NoCommand
          /\ wire' = "none"
          /\ AllocateAndMove(t, "sendall")
       \/ /\ socket_connection = "None"       \* connect() raises
          /\ MoveTo(t, "file")
          /\ UNCHANGED <<command_id, socket_connection, openSockets, sockIn,
                         peerInbox, wire>>
    /\ UNCHANGED <<cmdFile, loopFrame>>

\* sock.sendall(message), lines 193-195.
task_sendall(t) ==
    /\ running = t
    /\ tasks[t].pos = "sendall"
    /\ \/ /\ peerInbox' = Command(tasks[t].cmd_id, "memory.read")
          /\ wire' = "write"
          /\ MoveTo(t, "recv")
          /\ UNCHANGED <<socket_connection, openSockets, sockIn>>
       \/ /\ Teardown                         \* sendall raises
          /\ MoveTo(t, "file")
    /\ UNCHANGED <<command_id, cmdFile, loopFrame>>

\* The read of one line and its decoding, lines 198-213.
task_recv(t) ==
    /\ running = t
    /\ tasks[t].pos = "recv"
    /\ \/ /\ sockIn.kind = "response"
          /\ sockIn' = Artifact("absent")
          /\ wire' = "read"
          /\ MoveTo(t, "after")
          /\ UNCHANGED <<socket_connection, openSockets, peerInbox>>
       \/ /\ sockIn.kind = "null"
          /\ sockIn' = Artifact("absent")
          /\ wire' = "read"
          /\ MoveTo(t, "file")
          /\ UNCHANGED <<socket_connection, openSockets, peerInbox>>
       \/ /\ sockIn.kind \in {"garbage", "absent"}
          /\ Teardown
          /\ MoveTo(t, "file")
    /\ UNCHANGED <<command_id, cmdFile, loopFrame>>

\* send_command_file: the id allocation and the request artifact; the polls
\* that follow touch neither the socket nor the counter.
task_file(t) ==
    /\ running = t
    /\ tasks[t].pos = "file"
    /\ AllocateAndMove(t, "after")
    /\ \/ cmdFile' = Command(get_next_id(command_id), "memory.read")
       \/ cmdFile' = cmdFile
    /\ UNCHANGED <<wire, socket_connection, openSockets, sockIn, peerInbox,
                   loopFrame>>

\* After a send_command: a workflow makes its next one, any tool returns.
task_after(t) ==
    /\ running = t
    /\ tasks[t].pos = "after"
    /\ \/ /\ tasks[t].sends + 1 < MaxSends
          /\ command_id + 2 <= MaxId
          /\ tasks' = [tasks EXCEPT ![t].pos = "check",
                                    ![t].sends = tasks[t].sends + 1]
          /\ running' = Handover(t, "check")
       \/ /\ tasks' = [tasks EXCEPT ![t].pos = "returned",
                                    ![t].sends = tasks[t].sends + 1]
          /\ running' = Handover(t, "returned")
    /\ UNCHANGED <<wire, command_id, socket_connection, openSockets, sockIn,
                   peerInbox, cmdFile, loopFrame>>

\* The peer answers the command it received on the socket.
LoopPeerSocketReply ==
    /\ socket_connection = "open"
    /\ peerInbox # NoCommand
    /\ sockIn.kind = "absent"
    /\ \/ \E cid \in 0..MaxId, err \in BOOLEAN :
             sockIn' = Response(cid, err, peerInbox.id, peerInbox.epoch)
       \/ sockIn' = Artifact("null")
       \/ sockIn' = Artifact("garbage")
    /\ peerInbox' = NoCommand
    /\ UNCHANGED <<tasks, running, wire, command_id, socket_connection,
                   openSockets, cmdFile, loopFrame>>

NextLoop ==
    \/ \E t \in 1..MaxTasks : loop_request(t)
    \/ \E t \in 1..MaxTasks : loop_resume(t)
    \/ \E t \in 1..MaxTasks : task_check(t)
    \/ \E t \in 1..MaxTasks : task_connect(t)
    \/ \E t \in 1..MaxTasks : task_sendall(t)
    \/ \E t \in 1..MaxTasks : task_recv(t)
    \/ \E t \in 1..MaxTasks : task_file(t)
    \/ \E t \in 1..MaxTasks : task_after(t)
    \/ LoopPeerSocketReply

SpecLoop == InitLoop /\ [][NextLoop]_vars

\* ===================================================== transport claims
Last(s) == s[Len(s)]

InSeq(x, s) == \E k \in DOMAIN s : s[k] = x

Count(x, s) == Cardinality({k \in DOMAIN s : s[k] = x})

\* C1: a response returned by send_command carries the id allocated for
\* the request it was returned for, on the socket and on the file channel.
C1_ReturnedIdMatches ==
    (pc = "done" /\ result.kind = "response") => result.commandId = cmd_id

\* C2: the ids put in outgoing commands by one process, on either channel,
\* are strictly increasing: each command written to the socket or to the
\* request artifact carries an id above every id sent before it.
C2_SentIdsIncrease ==
    [][ /\ (peerInbox' # peerInbox /\ peerInbox' # NoCommand)
            => peerInbox'.id > sentMax
        /\ (cmdFile' # cmdFile) => cmdFile'.id > sentMax
        /\ (epoch' = epoch) => sentMax' >= sentMax ]_vars

C2_Witness ==
    /\ sentMax >= 3
    /\ InSeq("sendall", chanOps)
    /\ InSeq("write_cmd", chanOps)
    /\ peerInbox = NoCommand

\* C3: when the liveness check fails, send_command returns at once the
\* error carrying the liveness detail and the peer-unreachable flag; no id is
\* allocated and neither the socket nor the artifacts are touched.
C3_NotAliveShortCircuit ==
    [][ (pc = "check" /\ pc' # "check"
            /\ ~check_bizhawk_alive(stateFile, now).alive)
        => /\ pc' = "done"
           /\ result'.error
           /\ result'.detail = check_bizhawk_alive(stateFile, now).detail
           /\ result'.bizhawk_not_running
           /\ ~result'.hasCommandId
           /\ chanOps' = <<>>
           /\ ids' = <<>>
           /\ UNCHANGED <<command_id, socket_connection, cmdFile, respFile,
                          sockIn, peerInbox, sentMax>> ]_vars

C3_Witness ==
    /\ pc = "done"
    /\ result.kind = "unreachable"
    /\ command_id > 0
    /\ socket_connection = "open"
    /\ cmdFile # NoCommand

\* C4: when the socket connection cannot be established the call goes on
\* to the file channel: it writes the request artifact under the id it
\* allocated, and a poll that finds a response artifact with that id returns
\* exactly that response, as a socket response would be returned.
ConnectFailed == InSeq("connect_failed", chanOps)

C4_FallbackToFile ==
    /\ [](ConnectFailed /\ pc = "poll" => cmdFile = Command(cmd_id, action))
    /\ [](ConnectFailed /\ pc = "done"
             => /\ InSeq("write_cmd", chanOps) \/ InSeq("write_cmd_failed", chanOps)
                /\ result.kind \in {"response", "timeout", "write_error"}
                /\ result.kind = "response" => result.commandId = cmd_id)
    /\ [][ (ConnectFailed /\ pc = "poll" /\ slept' # slept
              /\ respFile.kind = "response" /\ respFile.commandId = cmd_id)
           => /\ pc' = "done"
              /\ result' = FromResponse(respFile) ]_vars

C4_Witness ==
    /\ pc = "done"
    /\ ConnectFailed
    /\ result.kind = "response"
    /\ result.reqEpoch = epoch
    /\ result.reqId = cmd_id
    /\ slept > POLL_INTERVAL_MS

\* C5: a file-channel send always terminates; the timeout result carries
\* the allocated id and is returned exactly when the polls that fit in the
\* timeout have been done, one per 50 ms sleep: not before, not after.
C5_TimeoutWindow ==
    /\ [](pc = "done" /\ result.kind = "timeout"
             => /\ result.commandId = Last(ids)
                /\ result.error
                /\ Count("read_resp", chanOps) * POLL_INTERVAL_MS = slept
                /\ slept <= timeout
                /\ timeout < slept + POLL_INTERVAL_MS)
    /\ [](pc = "done" /\ InSeq("write_cmd", chanOps)
             => result.kind \in {"response", "timeout"})
    /\ (pc = "poll" ~> pc = "done")

C5_Witness ==
    /\ pc = "done"
    /\ result.kind = "timeout"
    /\ slept = MaxPolls * POLL_INTERVAL_MS
    /\ timeout > slept
    /\ respFile.kind = "response"

\* C6: the response returned by a send is the peer's reply to a request
\* issued by that same call, never one produced for another request.
C6_ReplyToThisCall ==
    (pc = "done" /\ result.kind = "response")
        => /\ result.reqEpoch = epoch
           /\ InSeq(result.reqId, ids)

RecordSaysPaused ==
    /\ recordBefore.kind = "record"
    /\ recordBefore.pausedKind = "bool"
    /\ recordBefore.isPaused

RestorationActions == {"execution.resume", "breakpoint.remove"}

FirstError == CHOOSE k \in DOMAIN calls :
                 calls[k].error /\ \A m \in 1..(k - 1) : ~calls[m].error

\* C8: once a sub-call returned an error, a workflow issues only
\* restoration or cleanup calls and returns that error as the tool result.
C8_ErrorAborts ==
    (tool \in Workflows /\ \E k \in DOMAIN calls : calls[k].error)
        => /\ \A m \in DOMAIN calls :
                 m > FirstError => calls[m].action \in RestorationActions
           /\ tpc = "done" => (toolResult.error /\ toolResult.from = FirstError)

\* ================================================ liveness monitor claims
Threshold(state) ==
    IF state.pausedKind = "bool" /\ state.isPaused THEN 120 ELSE 30

AgeOf(state, t) == t - (IF state.tsKind = "missing" THEN 0 ELSE state.timestamp)

\* C9: for a readable record, check_bizhawk_alive answers alive exactly
\* when now - timestamp is at most 120 s (isPaused) or 30 s (otherwise).
C9_AliveIffWithinThreshold ==
    (pc = "checked" /\ stateFile.kind = "record" /\ stateFile.tsKind # "bad")
        => (alive <=> AgeOf(stateFile, now) <= Threshold(stateFile))

C9_Witness ==
    /\ pc = "checked"
    /\ alive
    /\ stateFile.kind = "record"
    /\ stateFile.pausedKind = "bool"
    /\ stateFile.isPaused
    /\ now - stateFile.timestamp = 120

FailureCase(state, t) ==
    IF state.kind = "absent" THEN "not_found"
    ELSE IF state.kind = "unreadable" \/ state.tsKind = "bad" THEN "read_error"
    ELSE IF AgeOf(state, t) <= Threshold(state) THEN "alive"
    ELSE IF Threshold(state) = 120 THEN "stale_paused"
    ELSE "stale_running"

\* C10: check_bizhawk_alive never raises; an absent, unreadable or
\* malformed record gives alive = false; and the details of two checks that
\* fail in different ways (not found, stale while paused, stale while running,
\* read error) differ.
C10_FailsSoftDistinctDetails ==
    /\ pc # "raised"
    /\ pc = "checked"
         => /\ FailureCase(stateFile, now) # "alive" => ~alive
            /\ \A s \in AliveStateFiles, t \in Nows :
                  ( /\ FailureCase(s, t) # "alive"
                    /\ FailureCase(stateFile, now) # "alive"
                    /\ FailureCase(s, t) # FailureCase(stateFile, now) )
                  => message # check_bizhawk_alive(s, t).detail

C10_Witness ==
    /\ pc = "checked"
    /\ stateFile.kind = "record"
    /\ stateFile.tsKind = "bad"
    /\ ~alive

\* ===================================================== address codec claims
\* C11: every token normalize_address accepts (a Python int, $-hex, 0x-hex,
\* bare hex or decimal, surrounding whitespace dropped) decodes to a
\* non-negative integer.
C11_NonNegative ==
    (fnArgs.fn = "normalize_address" /\ fnResult.kind \in {"int", "text"})
        => fnResult.value >= 0

\* A string of digits of the base and nothing else.
PlainDigits(d, base) == d # <<>> /\ \A k \in DOMAIN d : DigitValue(d[k]) < base

RECURSIVE Power(_, _)
Power(b, e) == IF e = 0 THEN 1 ELSE b * Power(b, e - 1)

RECURSIVE PlaceSum(_, _, _)
PlaceSum(d, base, k) ==
    IF k > Len(d) THEN 0
    ELSE DigitValue(d[k]) * Power(base, Len(d) - k) + PlaceSum(d, base, k + 1)

\* The positional value of a string of digits.
PlainValue(d, base) == PlaceSum(d, base, 1)

Decoded(v) == fnResult.kind \in {"int", "text"} /\ fnResult.value = v

\* C12: normalize_address applies its grammar in order. A leading $ or
\* 0x/0X selects base 16 for what follows the prefix; otherwise a token with
\* a hex letter is read in base 16; otherwise the token is read as decimal,
\* so a string of decimal digits decodes to its decimal value; a token that
\* no branch parses raises instead of returning a value.
C12_GrammarInOrder ==
    (fnArgs.fn = "normalize_address" /\ fnResult.kind # "none"
        /\ ~fnArgs.token.isInt) =>
    LET a == Strip(fnArgs.token.s)
        afterDollar == SubSeq(a, 2, Len(a))
        after0x == SubSeq(a, 3, Len(a))
        dollar == a # <<>> /\ a[1] = "$"
        zeroX == Len(a) >= 2 /\ a[1] = "0" /\ a[2] \in {"x", "X"}
        punctuation == {"$", "x", "X", "-", "+", "_"} \cup Whitespace
    IN  /\ (dollar /\ PlainDigits(afterDollar, 16))
            => Decoded(PlainValue(afterDollar, 16))
        /\ (zeroX /\ PlainDigits(after0x, 16))
            => Decoded(PlainValue(after0x, 16))
        /\ (~dollar /\ ~zeroX /\ HasHexLetter(a) /\ PlainDigits(a, 16))
            => Decoded(PlainValue(a, 16))
        /\ (~zeroX /\ PlainDigits(a, 10)) => Decoded(PlainValue(a, 10))
        /\ (a = <<>> \/ \E k \in DOMAIN a :
                            DigitValue(a[k]) = 99 /\ a[k] \notin punctuation)
            => fnResult.kind = "raised"

\* The bare token "10" is read as decimal, not as hexadecimal.
C12_Witness ==
    /\ fnArgs.fn = "normalize_address"
    /\ fnArgs.token = StrToken(<<"1", "0">>)
    /\ fnResult.kind = "int"
    /\ fnResult.value = 10

UpperChar(c) ==
    CASE c = "a" -> "A" [] c = "b" -> "B" [] c = "c" -> "C" [] c = "d" -> "D"
      [] c = "e" -> "E" [] c = "f" -> "F" [] c = "x" -> "X" [] OTHER -> c

LowerChar(c) ==
    CASE c = "A" -> "a" [] c = "B" -> "b" [] c = "C" -> "c" [] c = "D" -> "d"
      [] c = "E" -> "e" [] c = "F" -> "f" [] c = "X" -> "x" [] OTHER -> c

Upper(s) == [k \in DOMAIN s |-> UpperChar(s[k])]

Lower(s) == [k \in DOMAIN s |-> LowerChar(s[k])]

RECURSIVE DropZeros(_)
DropZeros(d) == IF Len(d) > 1 /\ Head(d) = "0" THEN DropZeros(Tail(d)) ELSE d

\* The hex digits of a token written in one of the hex styles ($, 0x/0X, or
\* bare with a hex letter); <<>> for any other token.
HexBody(a) ==
    LET body == IF a # <<>> /\ a[1] = "$" THEN Tail(a)
                ELSE IF Len(a) >= 2 /\ a[1] = "0" /\ a[2] \in {"x", "X"}
                     THEN SubSeq(a, 3, Len(a))
                ELSE IF HasHexLetter(a) THEN a
                ELSE <<>>
    IN  IF PlainDigits(body, 16) THEN body ELSE <<>>

\* The same hex digits in every casing and prefix style.
Styles(h) ==
    LET casings == {h, Upper(h), Lower(h)}
    IN  UNION { {<<"$">> \o c, <<"0", "x">> \o c, <<"0", "X">> \o c} : c \in casings }
        \cup { c \in casings : HasHexLetter(c) }

\* C13: format_address(normalize_address(s)) depends on the address only,
\* not on the casing or prefix style of s: every styling of the same hex
\* digits gives the same canonical string, "$" and the upper-case digits
\* padded to four; and a canonical string that format_address produced
\* decodes and re-encodes to itself.
C13_CanonicalForm ==
    (fnArgs.fn = "normalize_address" /\ fnResult.kind = "text") =>
    LET h == HexBody(Strip(fnArgs.token.s))
    IN  /\ (~fnArgs.token.isInt /\ h # <<>>) =>
              /\ fnResult.text = <<"$">> \o ZeroPad(DropZeros(Upper(h)), 4)
              /\ \A v \in Styles(h) :
                    LET r == normalize_address(StrToken(v))
                    IN  ~r.raised /\ format_address(r.value) = fnResult.text
        /\ fnArgs.canonical => fnResult.text = fnArgs.token.s

\* The token "0xa" was rendered as "$000A", and "$000A" passed back in was
\* rendered as "$000A" again.
C13_Witness ==
    /\ fnArgs.fn = "normalize_address"
    /\ fnArgs.canonical
    /\ fnArgs.origin = StrToken(<<"0", "x", "a">>)
    /\ fnArgs.token = StrToken(<<"$", "0", "0", "0", "A">>)
    /\ fnResult.kind = "text"
    /\ fnResult.text = <<"$", "0", "0", "0", "A">>

\* ================================================== local filtering claims
\* What the claim asks of a returned candidate.
Qualifies(c, min_decrement, initial_value) ==
    /\ c.hasDiff
    /\ c.diff <= 0 - min_decrement
    /\ initial_value.given => (c.hasOld /\ c.old = initial_value.value)

\* C14: on compare success find_decrementing_value returns exactly the
\* peer's candidates, in the peer's order, whose diff <= -minDecrement and,
\* when initialValue is given, whose old equals it, cut to the first 200; a
\* candidate with diff 0 is never returned when minDecrement is 1.
C14_FilterExact ==
    (fnArgs.fn = "fdv_filter" /\ fnResult.kind = "result") =>
    LET cs == fnArgs.candidates
        r == fnResult.candidates
        Q(c) == Qualifies(c, fnArgs.min_decrement, fnArgs.initial_value)
        scanned == IF Len(r) < MAX_CANDIDATES THEN Len(cs)
                   ELSE r[Len(r)].address
    IN  /\ Len(r) <= MAX_CANDIDATES
        /\ \A j \in DOMAIN r : Q(r[j]) /\ r[j] = cs[r[j].address]
        /\ \A j \in 1..(Len(r) - 1) : r[j].address < r[j + 1].address
        /\ Cardinality({k \in 1..scanned : Q(cs[k])}) = Len(r)
        /\ fnArgs.min_decrement = 1
              => \A j \in DOMAIN r : ~(r[j].hasDiff /\ r[j].diff = 0)
        /\ fnResult.afterFilter = Len(r)

\* More than 200 candidates qualify and 200 are returned, while a candidate
\* with diff 0 in the peer's list is left out at minDecrement 1.
C14_Witness ==
    /\ fnArgs.fn = "fdv_filter"
    /\ fnResult.kind = "result"
    /\ fnArgs.min_decrement = 1
    /\ fnArgs.initial_value.given
    /\ Len(fnResult.candidates) = MAX_CANDIDATES
    /\ fnArgs.candidates[2].hasDiff /\ fnArgs.candidates[2].diff = 0
    /\ fnArgs.candidates[2 * MAX_CANDIDATES + 1].diff = -1

\* The peer reported this address as changed.
Reported(v) ==
    \E m \in DOMAIN fnArgs.changed_data :
        /\ fnArgs.changed_data[m].hasAddress
        /\ fnArgs.changed_data[m].address = v

\* narrowed is what the claim asks for, given the pattern p the caller's
\* list repeats and decoded[j], the decoding of p[j].
NarrowedAsClaimed(p, decoded) ==
    LET \* positions of the pattern that are kept, and how many of them lie
        \* at or before position j
        keptAt == {j \in DOMAIN p : ~decoded[j].raised /\ Reported(decoded[j].value)}
        upTo(j) == Cardinality({m \in keptAt : m <= j})
        \* the place in narrowed of the caller's k-th address, if kept
        at(k) == ((k - 1) % Len(p)) + 1
        rank(k) == ((k - 1) \div Len(p)) * Cardinality(keptAt) + upTo(at(k))
    IN  /\ Len(fnResult.narrowed) = fnArgs.repeats * Cardinality(keptAt)
        /\ \A j \in keptAt :
              \A k \in {m \in DOMAIN fnArgs.addresses : at(m) = j} :
                  /\ fnArgs.addresses[k] = p[j]
                  /\ fnResult.narrowed[rank(k)] = format_address(decoded[j].value)

\* C15: the filter action of narrow_candidates returns, in the caller's
\* order, the canonical $XXXX form of exactly those caller addresses whose
\* normalized value is in the peer's changed-address set; narrowedCount is
\* the length of that list, originalCount the length of the caller's list,
\* and at most 50 detail records are returned.
C15_NarrowExact ==
    (fnArgs.fn = "narrow_filter" /\ fnResult.kind = "result") =>
        /\ NarrowedAsClaimed(fnArgs.pattern,
                [j \in DOMAIN fnArgs.pattern |->
                    normalize_address(fnArgs.pattern[j])])
        /\ fnResult.narrowedCount = Len(fnResult.narrowed)
        /\ fnResult.originalCount = Len(fnArgs.addresses)
        /\ Len(fnResult.details) <= MAX_DETAILS

\* 52 addresses in two styles all match, one canonical string each, and the
\* detail records are cut to 50.
C15_Witness ==
    /\ fnArgs.fn = "narrow_filter"
    /\ fnResult.kind = "result"
    /\ Len(fnArgs.addresses) >= 2
    /\ fnArgs.addresses[1] = StrToken(<<"1", "0">>)
    /\ fnArgs.addresses[2] = StrToken(<<"$", "0", "a">>)
    /\ fnResult.narrowedCount > MAX_DETAILS
    /\ fnResult.narrowed[1] = <<"$", "0", "0", "0", "A">>
    /\ Len(fnResult.details) = MAX_DETAILS

\* The positions of the hits from one code site.
HitsAt(key) == {k \in DOMAIN fnArgs.hits : KeyOf(fnArgs.hits[k]) = key}

Sites == { KeyOf(fnArgs.hits[k]) : k \in DOMAIN fnArgs.hits }

\* C16: capture_write_source aggregates the hits by PC: each entry gives
\* the number of hits with that PC and, as lastValue, the value of the last
\* hit with that PC; uniqueSites is the number of distinct PCs; the entries
\* are sorted by count, highest first, and cut to the top 20.
C16_AggregateByPC ==
    (fnArgs.fn = "capture_summary" /\ fnResult.kind = "result") =>
    LET r == fnResult.hits
        LastAt(key) == CHOOSE k \in HitsAt(key) : \A m \in HitsAt(key) : m <= k
    IN  /\ fnResult.totalHits = Len(fnArgs.hits)
        /\ fnResult.uniqueSites = Cardinality(Sites)
        /\ Len(r) = Min(MAX_SITES, Cardinality(Sites))
        /\ \A j \in DOMAIN r :
              /\ r[j].pc \in Sites
              /\ r[j].count = Cardinality(HitsAt(r[j].pc))
              /\ r[j].lastValue = fnArgs.hits[LastAt(r[j].pc)].value
        /\ \A j, k \in DOMAIN r : j # k => r[j].pc # r[k].pc
        /\ \A j \in 1..(Len(r) - 1) : r[j].count >= r[j + 1].count
        /\ \A key \in Sites :
              (\A j \in DOMAIN r : r[j].pc # key)
                  => Cardinality(HitsAt(key)) <= r[Len(r)].count

\* After hits from 20 other sites, site 100 was hit with value 1 and then
\* with value 2: it is listed first with count 2 and lastValue 2, and of the
\* 21 sites 20 are listed.
C16_Witness ==
    /\ fnArgs.fn = "capture_summary"
    /\ fnResult.kind = "result"
    /\ fnResult.uniqueSites = MAX_SITES + 1
    /\ Len(fnResult.hits) = MAX_SITES
    /\ fnArgs.hits[1].PC = 1
    /\ fnArgs.hits[MAX_SITES + 1].value = 1
    /\ fnResult.hits[1] = [pc |-> 100, count |-> 2, hasLast |-> TRUE, lastValue |-> 2]

\* ======================================================= tool front claims
\* C17: while FREEZE_FEATURE_ENABLED is false, every freeze tool
\* (emu_cheat_freeze_address, emu_cheat_unfreeze_address,
\* emu_cheat_list_freezes) returns the feature-disabled error and makes no
\* send_command call.
C17_FreezeToolsDisabled ==
    (tool \in FreezeTools /\ ~FREEZE_FEATURE_ENABLED) =>
        /\ calls = <<>>
        /\ tpc = "done" => toolResult.kind = "feature_disabled"

\* C18: call_tool always returns a result and lets no exception reach its
\* caller: the result of a forwarded command carries the error of that
\* command, an exception raised inside call_tool becomes a result with an
\* error, and an unknown tool name gives an error result without any
\* send_command call.
C18_AlwaysAResult ==
    /\ [](tpc # "raised")
    /\ [](tpc = "done" => toolResult.kind # "none")
    /\ []((tpc = "done" /\ tool \in ForwardingTools) =>
            /\ Len(calls) = 1
            /\ toolResult.from = 1
            /\ toolResult.error = calls[1].error)
    /\ []((tool \notin KnownTools /\ tpc # "idle") => calls = <<>>)
    /\ []((tool \notin KnownTools /\ tpc = "done") => toolResult.error)
    /\ [][tpc = "except" =>
            /\ tpc' = "done"
            /\ toolResult'.kind = "exception"
            /\ toolResult'.error]_vars

\* A workflow raised after it had contacted the peer, and call_tool
\* returned the exception as an error result.
C18_Witness ==
    /\ tpc = "done"
    /\ tool = W_CAPTURE
    /\ toolResult.kind = "exception"
    /\ toolResult.error
    /\ Len(calls) = 7

\* ============================================= transport claims, continued
\* C19: a send_command that passes the liveness check allocates exactly one
\* correlation id: the id of the fast-path attempt is, when the fast path
\* fails, also the id of the request artifact and of the response matching.
C19_OneIdPerSend ==
    /\ Len(ids) <= 1
    /\ (pc = "done" /\ result.kind # "unreachable") => Len(ids) = 1
    /\ pc = "poll" => (cmdFile.id = ids[1] /\ cmd_id = ids[1])

\* C20: whenever send_command goes on to the file channel after it had
\* obtained a socket handle (write error, read error or timeout, connection
\* closed, or a line that does not decode to a response object), the shared
\* socket handle has been closed and set to None before the request
\* artifact is written.
C20_SocketClosedBeforeFile ==
    (pc = "file" /\ ids # <<>>) => socket_connection = "None"

\* Read or write failures of the socket among the channel operations.
Faults(ops) == Count("sendall_failed", ops) + Count("recv_failed", ops)

ConnectAttempts(ops) == Count("connect", ops) + Count("connect_failed", ops)

\* C21: at most one socket is open at any time, and it is the one the shared
\* handle refers to; a connection is made only while the shared handle is
\* None; a handle on which a read or write failed is closed and set to None
\* in the same step, so that no later send finds it; and a send that reaches
\* the socket path while the handle is None (after a teardown or a failed
\* connect) tries to connect again.
C21_OneSocketHandle ==
    /\ [](openSockets <= 1)
    /\ [](openSockets = 1 <=> socket_connection # "None")
    /\ [][ConnectAttempts(chanOps') > ConnectAttempts(chanOps)
            => socket_connection = "None" /\ openSockets = 0]_vars
    /\ [][Faults(chanOps') > Faults(chanOps)
            => socket_connection' = "None" /\ openSockets' = 0]_vars
    /\ [][(pc = "socket" /\ pc' # "socket" /\ socket_connection = "None")
            => ConnectAttempts(chanOps') = 1]_vars
    /\ [](pc \in {"sendall", "recv"} => socket_connection # "None")

\* A send found the handle an earlier send had left open, a read or write
\* on it failed, and the send goes on to the file channel with the socket
\* closed and the handle None.
C21_Witness ==
    /\ pc = "file"
    /\ ids = <<2>>
    /\ ~InSeq("connect", chanOps)
    /\ Faults(chanOps) = 1
    /\ socket_connection = "None"
    /\ openSockets = 0

\* ======================================================= event loop claims
InsideTasks == {t \in 1..MaxTasks : Inside(t)}

OnSocket == {t \in 1..MaxTasks : tasks[t].pos \in {"sendall", "recv"}}

\* Task t wrote a command to the socket in this step.
Wrote(t) == tasks[t].pos = "sendall" /\ tasks'[t].pos = "recv"

\* Task t left the wait for the response line in this step.
LeftRecv(t) == tasks[t].pos = "recv" /\ tasks'[t].pos # "recv"

\* C22: invocations of call_tool do not interleave in the transport.  At
\* most one invocation is between its entry and its return; a step that
\* reads or changes the socket handle or the id counter is a step of that
\* one invocation; at most one send is on the socket; and a command is
\* written to the socket only when the command written before it on the same
\* handle has had its one response line read, or that handle was torn down.
C22_NoInterleaving ==
    /\ [](Cardinality(InsideTasks) <= 1)
    /\ [](running # 0 => InsideTasks = {running})
    /\ [][(command_id' # command_id \/ socket_connection' # socket_connection
              \/ wire' # wire)
            => (running # 0 /\ InsideTasks = {running})]_vars
    /\ [](Cardinality(OnSocket) <= 1)
    /\ [](wire = "write" => \E t \in 1..MaxTasks : tasks[t].pos = "recv")
    /\ [][\A t \in 1..MaxTasks :
            /\ Wrote(t) => (wire # "write" /\ wire' = "write")
            /\ LeftRecv(t) => (wire = "write" /\ wire' \in {"read", "none"})]_vars

\* An invocation is waiting for the response to the command of its second
\* send on the handle its first send opened, while the request of another
\* invocation has arrived and waits for the thread.
C22_Witness ==
    /\ \E t, u \in 1..MaxTasks :
          /\ tasks[t].pos = "recv"
          /\ tasks[t].sends = 1
          /\ tasks[t].cmd_id = 2
          /\ tasks[u].pos = "ready"
          /\ running = t
    /\ wire = "write"
    /\ socket_connection = "open"

\* ============================================== file channel claims
\* The response artifact is the answer the polling send waits for.
Matches == respFile.kind = "response" /\ respFile.commandId = cmd_id

\* C23: a poll that finds the response artifact absent, not decodable, or
\* carrying another commandId than the awaited one (a lower one left by an
\* earlier request among them) neither ends the wait nor returns the
\* artifact: the loop goes on to its next iteration, and the send ends only
\* with a matching response or, once the polls are used up, with a timeout.
C23_PollSkipsOthers ==
    /\ [][(pc = "poll" /\ slept' # slept /\ ~Matches)
            => /\ pc' = "poll"
               /\ i' = i + 1
               /\ result' = NoResult]_vars
    /\ [][(pc = "poll" /\ pc' = "done")
            => \/ Matches /\ result' = FromResponse(respFile)
               \/ i = max_polls /\ result' = TimeoutResult(cmd_id)]_vars

\* A send polled past the response to an earlier request (lower commandId)
\* and ended in a timeout with that response still in place.
C23_Witness ==
    /\ pc = "done"
    /\ result.kind = "timeout"
    /\ slept = MaxPolls * POLL_INTERVAL_MS
    /\ respFile.kind = "response"
    /\ respFile.commandId < cmd_id
    /\ respFile.reqEpoch = epoch

WriteFailed == InSeq("write_cmd_failed", chanOps)

\* C24: when the request artifact cannot be written, send_command_file
\* returns at once an error result with the id it allocated and never reads
\* the response artifact; and a send that passed the liveness check ends
\* with a response, a timeout, or this write error and nothing else: a
\* failure on the socket by itself never ends a send.
C24_WriteErrorOnly ==
    /\ [][(pc = "file" /\ pc' # "file" /\ cmdFile' = cmdFile)
            => /\ pc' = "done"
               /\ result' = WriteError(cmd_id')
               /\ cmd_id' = Last(ids')
               /\ Last(chanOps') = "write_cmd_failed"]_vars
    /\ [](WriteFailed
            => /\ pc = "done"
               /\ result.kind = "write_error"
               /\ result.error
               /\ result.hasCommandId
               /\ result.commandId = Last(ids)
               /\ slept = 0
               /\ ~InSeq("read_resp", chanOps))
    /\ []((pc = "done" /\ alive)
            => /\ result.kind \in {"response", "timeout", "write_error"}
               /\ result.kind = "write_error" <=> WriteFailed)

\* The socket failed first (the read of the response line), the send fell
\* back, and the write of the request artifact failed.
C24_Witness ==
    /\ pc = "done"
    /\ result.kind = "write_error"
    /\ InSeq("recv_failed", chanOps)
    /\ Len(ids) = 2
    /\ result.commandId = ids[2]
    /\ respFile.kind = "response"

\* ================================= orchestrator claims, continued
ActionsOf(cs) == [k \in DOMAIN cs |-> cs[k].action]

FdvBody == <<"execution.pause", "memory.snapshot", "execution.resume",
             "execution.step", "execution.pause", "memory.compare">>

SnapshotSucceeded ==
    /\ locals.snap_result # NoSub
    /\ locals.snap_result.object
    /\ ~locals.snap_result.error

\* C25: when memory.snapshot succeeded, find_decrementing_value returns
\* after exactly these sub-calls, in this order: execution.pause,
\* memory.snapshot, execution.resume, execution.step, execution.pause,
\* memory.compare, and then execution.resume exactly when the pause state
\* captured at entry was running; no other sub-call is made.
C25_FdvSequence ==
    (tool = W_FDV /\ tpc = "done" /\ SnapshotSucceeded)
        => ActionsOf(calls) =
              FdvBody \o (IF locals.was_paused THEN <<>> ELSE <<"execution.resume">>)

SnapshotFailed ==
    /\ locals.snap_result # NoSub
    /\ locals.snap_result.object
    /\ locals.snap_result.error

\* C26: when memory.snapshot returns an error, find_decrementing_value
\* returns that error as the tool result and makes no further sub-call: the
\* calls made are execution.pause and memory.snapshot and nothing else, so
\* no resume, no frame advance, no compare and no restoration.
C26_SnapshotErrorAborts ==
    /\ []((tool = W_FDV /\ SnapshotFailed)
            => /\ tpc = "done"
               /\ ActionsOf(calls) = <<"execution.pause", "memory.snapshot">>
               /\ calls[2].error
               /\ toolResult = ErrorOf(locals.snap_result)
               /\ toolResult.from = 2)
    /\ [][(tool = W_FDV /\ SnapshotFailed /\ tpc' # "start")
            => (calls' = calls /\ toolResult' = toolResult)]_vars

\* The snapshot failed while the record read at entry said running and the
\* pause before it had been executed: the peer stays paused, unrestored.
C26_Witness ==
    /\ tool = W_FDV
    /\ tpc = "done"
    /\ SnapshotFailed
    /\ ~locals.was_paused
    /\ ~pausedBefore
    /\ peerPaused
    /\ Len(calls) = 2

\* C27: in every workflow that advances frames, the execution.step sub-call
\* is sent with the short per-substep timeout FAST_TIMEOUT, not with the
\* default timeout.
C27_StepUsesFastTimeout ==
    \A k \in DOMAIN calls :
        (tool \in Workflows /\ calls[k].action = "execution.step")
            => calls[k].timeout = FAST_TIMEOUT

\* =========================================================== frame claims
FrameCall == fnArgs.fn = "frames" /\ fnResult # NoReturn

\* C28: the frame count sent in execution.step never exceeds 300 in
\* find_decrementing_value and trace_and_summarize and never exceeds 600 in
\* capture_write_source, whatever the caller passes; when the caller passes
\* no frames the count is 60, 60 and 180; and the framesAdvanced or
\* framesTraced field of the result is the count that was sent.
C28_FramesCapped ==
    /\ (FrameCall /\ fnResult.kind \in {"stepped", "result"})
         => /\ fnArgs.name \in {W_FDV, W_TRACE} => fnResult.count <= 300
            /\ fnArgs.name = W_CAPTURE => fnResult.count <= 600
            /\ fnArgs.frames.kind = "int" /\ fnArgs.frames.n <= 300
                 => fnResult.count = fnArgs.frames.n
            /\ fnArgs.frames.kind = "missing"
                 => fnResult.count = (CASE fnArgs.name = W_FDV -> 60
                                        [] fnArgs.name = W_TRACE -> 60
                                        [] fnArgs.name = W_CAPTURE -> 180)
    /\ (FrameCall /\ fnResult.kind = "result")
         => fnResult.reported = fnResult.count

\* capture_write_source was asked for more frames than its cap and reports
\* the 600 it sent.
C28_Witness ==
    /\ FrameCall
    /\ fnArgs.name = W_CAPTURE
    /\ fnArgs.frames = [kind |-> "int", n |-> 601]
    /\ fnResult.kind = "result"
    /\ fnResult.count = 600
    /\ fnResult.reported = 600

EventPhase1 == tool = W_EVENT /\ arguments.phase \in {0, 1}

EventPhase2 == tool = W_EVENT /\ arguments.phase \notin {0, 1}

IsPrefix(s, t) == Len(s) <= Len(t) /\ \A k \in DOMAIN s : s[k] = t[k]

Phase1Calls == <<"execution.pause", "memory.snapshot", "execution.resume">>

Phase2Calls == <<"execution.pause", "memory.compare", "execution.resume">>

\* C29: find_value_on_event makes exactly the sub-calls execution.pause,
\* memory.snapshot, execution.resume in phase 1 and execution.pause,
\* memory.compare, execution.resume in phase 2, in that order, the compare
\* carrying the caller's filter or "changed" when none was given; phase 2
\* returns at most 200 candidates; and phase 2 starts with no local left by
\* an earlier invocation and takes its result from its own compare alone,
\* whether or not phase 1 ran in this process.
C29_EventPhases ==
    /\ EventPhase1 => IsPrefix(ActionsOf(calls), Phase1Calls)
    /\ EventPhase2 => IsPrefix(ActionsOf(calls), Phase2Calls)
    /\ (EventPhase1 /\ tpc = "done") => ActionsOf(calls) = Phase1Calls
    /\ (EventPhase2 /\ tpc \in {"done", "except"}) => ActionsOf(calls) = Phase2Calls
    /\ (EventPhase2 /\ Len(calls) >= 2)
         => calls[2].filter = (IF arguments.filter = "" THEN "changed"
                               ELSE arguments.filter)
    /\ (EventPhase2 /\ tpc = "done" /\ toolResult.kind = "comparison_complete")
         => /\ locals.candidates <= 200
            /\ locals.candidates <= locals.data
            /\ locals.candidates = 200 \/ locals.candidates = locals.data
    /\ (tool = W_EVENT /\ tpc = "start") => (locals = NoLocals /\ calls = <<>>)
    /\ (EventPhase2 /\ tpc = "done" /\ toolResult.kind # "exception")
         => toolResult = (IF locals.compare_result.error
                          THEN ErrorOf(locals.compare_result)
                          ELSE Built("comparison_complete"))

\* Phase 2 ran in a process that never ran phase 1, with no filter given,
\* and returned 200 of the 201 addresses the peer reported.
C29_Witness ==
    /\ EventPhase2
    /\ tpc = "done"
    /\ ~phase1Ran
    /\ arguments.filter = ""
    /\ toolResult.kind = "comparison_complete"
    /\ locals.data = 201
    /\ locals.candidates = 200
    /\ Len(calls) = 3

SnapshotTool ==
    \/ EventPhase1
    \/ tool = W_NARROW /\ arguments.action \in {"", "snapshot"}

\* C30: find_value_on_event phase 1 and the snapshot action of
\* narrow_candidates acknowledge the snapshot only when their
\* memory.snapshot sub-call returned without error; when it returned an
\* error (the peer-unreachable error among them) the tool result is that
\* error.
C30_SnapshotAckOnlyOnSuccess ==
    (SnapshotTool /\ tpc = "done" /\ locals.snap_result.object)
        => IF locals.snap_result.error
           THEN toolResult = ErrorOf(locals.snap_result)
           ELSE toolResult.kind \in {"snapshot_taken", "snapshot"} /\ ~toolResult.error

Normalizes(addr) == ~normalize_address(addr).raised

KeptAddress(addr) == Normalizes(addr) /\ Reported(normalize_address(addr).value)

\* C31: in the filter action of narrow_candidates a caller address that
\* cannot be normalized is skipped without failing the call. The iteration
\* over such an address leaves narrowed and the details as they are and
\* goes on to the next address; an address behind it that normalizes and
\* was reported is still appended in its canonical form; and behind the
\* last address the call ends in a filter result, never in an error, whose
\* originalCount counts the skipped addresses too.
C31_InvalidSkipped ==
    /\ [][(fnArgs.fn = "narrow_filter" /\ fnResult.kind = "loop"
             /\ fnResult.i <= Len(fnArgs.addresses))
           => LET addr == fnArgs.addresses[fnResult.i]
              IN  /\ fnResult'.kind = "loop"
                  /\ fnResult'.i = fnResult.i + 1
                  /\ ~Normalizes(addr) =>
                        /\ fnResult'.narrowed = fnResult.narrowed
                        /\ fnResult'.narrowed_details = fnResult.narrowed_details
                  /\ KeptAddress(addr) =>
                        /\ fnResult'.narrowed =
                              Append(fnResult.narrowed,
                                     format_address(normalize_address(addr).value))
                        /\ Len(fnResult'.narrowed_details) =
                              Len(fnResult.narrowed_details) + 1]_vars
    /\ [][(fnArgs.fn = "narrow_filter" /\ fnResult.kind = "loop"
             /\ fnResult.i > Len(fnArgs.addresses))
           => /\ fnResult'.kind = "result"
              /\ fnResult'.narrowed = fnResult.narrowed
              /\ fnResult'.narrowedCount = Len(fnResult.narrowed)
              /\ fnResult'.originalCount = Len(fnArgs.addresses)]_vars
    /\ [](fnArgs.fn = "narrow_filter" =>
             /\ fnResult.kind \in {"loop", "result"}
             /\ fnResult.i <= Len(fnArgs.addresses) + 1)

\* The caller passed "g", which is no address, and then "10", which the peer
\* reported: the result is a filter result with the one address $000A.
C31_Witness ==
    /\ fnArgs.fn = "narrow_filter"
    /\ fnResult.kind = "result"
    /\ fnArgs.addresses = <<StrToken(<<"g">>), StrToken(<<"1", "0">>)>>
    /\ ~Normalizes(fnArgs.addresses[1])
    /\ fnResult.originalCount = 2
    /\ fnResult.narrowed = << <<"$", "0", "0", "0", "A">> >>
    /\ Len(fnResult.details) = 1

CaptureOrder == <<"breakpoint.clearHits", "breakpoint.setAutoMode",
                  "breakpoint.add", "execution.resume", "execution.step",
                  "execution.pause", "breakpoint.getHits", "breakpoint.remove">>

AddFailed ==
    /\ locals.bp_result # NoSub
    /\ locals.bp_result.object
    /\ locals.bp_result.error

\* C32: capture_write_source returns after exactly these sub-calls, in this
\* order: breakpoint.clearHits, breakpoint.setAutoMode, breakpoint.add,
\* execution.resume, execution.step, execution.pause, breakpoint.getHits,
\* breakpoint.remove; when breakpoint.add returned an error it returns that
\* error after the first three and makes none of the later calls. (Calls
\* whose frames argument is no number fail before the first sub-call and
\* are left out here.)
C32_CaptureOrder ==
    (tool = W_CAPTURE /\ tpc = "done" /\ ~frames_raises(arguments)) =>
        IF AddFailed
        THEN /\ ActionsOf(calls) = SubSeq(CaptureOrder, 1, 3)
             /\ toolResult = ErrorOf(locals.bp_result)
        ELSE ActionsOf(calls) = CaptureOrder

AddSucceeded ==
    /\ locals.bp_result # NoSub
    /\ locals.bp_result.object
    /\ ~locals.bp_result.error

\* C33: whenever breakpoint.add succeeded and the peer returned a
\* breakpoint id, whatever its value, capture_write_source has issued
\* breakpoint.remove as its last sub-call when it returns, and the result is
\* the summary, not an error, also when that remove failed.
C33_BreakpointRemoved ==
    (tool = W_CAPTURE /\ tpc = "done" /\ AddSucceeded /\ locals.bp_id # -1) =>
        /\ calls # <<>>
        /\ Last(calls).action = "breakpoint.remove"
        /\ Count("breakpoint.remove", ActionsOf(calls)) = 1
        /\ toolResult = Built("summary")

TraceOrder == <<"trace.clear", "trace.start", "execution.resume",
                "execution.step", "execution.pause", "trace.stop", "trace.get">>

\* C34 as stated: trace_and_summarize returns after exactly trace.clear,
\* trace.start, execution.resume, execution.step, execution.pause,
\* trace.stop, trace.get(count = 1000), in that order, on every call.
C34_TraceOrder ==
    (tool = W_TRACE /\ tpc = "done") =>
        /\ ActionsOf(calls) = TraceOrder
        /\ Last(calls).count = TRACE_MAX_LINES

\* C34, amended: when the frames argument is omitted or an integer,
\* trace_and_summarize issues exactly trace.clear, trace.start,
\* execution.resume, execution.step, execution.pause, trace.stop and
\* trace.get(count = 1000), in that order: at every moment the calls made
\* are a prefix of this list, the return comes after all seven, trace.stop
\* has been issued whenever trace.get is, and the count asked for is the
\* fixed maximum. When frames cannot be compared with the cap, the call
\* fails before any sub-call is issued.
C34_TraceOrderWhenFramesValid ==
    tool = W_TRACE =>
        /\ IsPrefix(ActionsOf(calls), TraceOrder)
        /\ \A k \in DOMAIN calls :
              calls[k].action = "trace.get" =>
                  /\ calls[k].count <= TRACE_MAX_LINES
                  /\ calls[k].count = 1000
                  /\ k > 1 /\ calls[k - 1].action = "trace.stop"
        /\ tpc = "done" =>
              IF frames_raises(arguments)
              THEN calls = <<>> /\ toolResult.kind = "exception"
              ELSE Len(calls) = Len(TraceOrder)

\* A trace whose trace.stop came back with an error: the lines are fetched
\* all the same and the hotspots are returned.
C34_Witness ==
    /\ tool = W_TRACE
    /\ tpc = "done"
    /\ ~frames_raises(arguments)
    /\ ActionsOf(calls) = TraceOrder
    /\ calls[6].error
    /\ ~calls[7].error
    /\ calls[7].count = TRACE_MAX_LINES
    /\ toolResult = Built("hotspots")

\* ==================================================== trace summary claims
TraceCall == fnArgs.fn = "trace_summary" /\ fnResult.kind = "result"

EntriesAt(key) ==
    {k \in DOMAIN fnArgs.entries : EntryKey(fnArgs.entries[k]) = key}

TracedAddresses == { EntryKey(fnArgs.entries[k]) : k \in DOMAIN fnArgs.entries }

\* The caller's topN where it is a count: 20 when omitted.
TopN == IF fnArgs.topN.kind = "missing" THEN DEFAULT_TOP_N ELSE fnArgs.topN.n

\* C35: trace_and_summarize aggregates the trace entries by pc: the count of
\* a hotspot is the number of entries with that pc, its mnemonic is the
\* instruction text of the last entry with that pc, and the hotspots are
\* ordered by count, highest first, and cut to the caller's topN (20 when
\* omitted).
C35_HotspotsByPC ==
    (TraceCall /\ fnArgs.topN.kind # "none" /\ TopN >= 0) =>
    LET r == fnResult.hotspots
        LastAt(key) == CHOOSE k \in EntriesAt(key) : \A m \in EntriesAt(key) : m <= k
    IN  /\ Len(r) = Min(TopN, Cardinality(TracedAddresses))
        /\ \A j \in DOMAIN r :
              /\ r[j].pc \in TracedAddresses
              /\ r[j].count = Cardinality(EntriesAt(r[j].pc))
              /\ r[j].mnemonic = fnArgs.entries[LastAt(r[j].pc)].asm
        /\ \A j, k \in DOMAIN r : j # k => r[j].pc # r[k].pc
        /\ \A j \in 1..(Len(r) - 1) : r[j].count >= r[j + 1].count

\* =================================================== format_address claims
UpperHexChars == {"0", "1", "2", "3", "4", "5", "6", "7", "8", "9",
                  "A", "B", "C", "D", "E", "F"}

\* Addresses the rendering of one address is compared with.
OtherAddresses == (0..300) \cup {n \in IntTokens : n >= 0}

\* C36: format_address renders a non-negative address as "$" followed by
\* its upper-case hexadecimal digits, zero-padded to at least 4 digits:
\* exactly 4 digits up to 0xFFFF, all digits without truncation for wider
\* addresses (the digits read back as the address), so that no other
\* address renders to the same string.
C36_FormatAddress ==
    (fnResult.kind = "text" /\ fnResult.value >= 0) =>
        LET t == fnResult.text
            digits == Tail(t)
        IN  /\ t[1] = "$"
            /\ \A k \in DOMAIN digits : digits[k] \in UpperHexChars
            /\ Len(digits) >= 4
            /\ fnResult.value <= 65535 => Len(digits) = 4
            /\ fnResult.value > 65535 => Len(digits) > 4 /\ digits[1] # "0"
            /\ PlainValue(digits, 16) = fnResult.value
            /\ \A n \in OtherAddresses :
                  n # fnResult.value => format_address(n) # t

\* The address 0x10000 is rendered with its five digits.
C36_Witness ==
    /\ fnArgs.fn = "normalize_address"
    /\ fnArgs.token = IntToken(65536)
    /\ fnResult.kind = "text"
    /\ fnResult.value = 65536
    /\ fnResult.text = <<"$", "1", "0", "0", "0", "0">>

\* ======================================================= delivery claims
WrittenToSocket == InSeq("sendall", chanOps)

WrittenToArtifact == InSeq("write_cmd", chanOps)

\* C37: one send_command call delivers its command to the peer at most
\* once: when the command line was written to the socket, the same action
\* is not also written to the request artifact by that call.
C37_DeliveredAtMostOnce == ~(WrittenToSocket /\ WrittenToArtifact)

\* ===================================================== aggregation claims
SummaryCall ==
    fnArgs.fn \in {"capture_summary", "trace_summary"} /\ fnResult.kind = "result"

\* The keys of the peer's list, in its order: the PC of each hit, the pc of
\* each trace entry.
InputKeys ==
    IF fnArgs.fn = "capture_summary"
    THEN [k \in DOMAIN fnArgs.hits |-> KeyOf(fnArgs.hits[k])]
    ELSE [k \in DOMAIN fnArgs.entries |-> EntryKey(fnArgs.entries[k])]

ReportedTotal ==
    IF fnArgs.fn = "capture_summary" THEN fnResult.totalHits
    ELSE fnResult.instructionsLogged

ReportedList ==
    IF fnArgs.fn = "capture_summary" THEN fnResult.hits ELSE fnResult.hotspots

RECURSIVE SumOfCounts(_)
SumOfCounts(sites) ==
    IF sites = <<>> THEN 0 ELSE Head(sites).count + SumOfCounts(Tail(sites))

FirstSeen(key) ==
    CHOOSE k \in DOMAIN InputKeys :
        InputKeys[k] = key /\ \A m \in 1..(k - 1) : InputKeys[m] # key

\* C38: the aggregation of capture_write_source and of trace_and_summarize
\* loses no entry: before truncation the per-site counts sum to totalHits
\* (instructionsLogged), every entry of the peer's list is counted under its
\* site, every site has a count of at least 1, the reported list is
\* non-increasing in count, and sites with equal counts are reported in
\* the order in which they were first seen.
C38_NoEntryLost ==
    SummaryCall =>
        LET sites == fnResult.pc_counts
            r == ReportedList
        IN  /\ SumOfCounts(sites) = ReportedTotal
            /\ ReportedTotal = Len(InputKeys)
            /\ \A k \in DOMAIN InputKeys :
                  \E j \in DOMAIN sites : sites[j].pc = InputKeys[k]
            /\ \A j \in DOMAIN sites : sites[j].count >= 1
            /\ \A j \in DOMAIN r : \E k \in DOMAIN sites : sites[k] = r[j]
            /\ \A j \in 1..(Len(r) - 1) : r[j].count >= r[j + 1].count
            \* equal counts are neighbours in a list ordered by count
            /\ \A j \in 1..(Len(r) - 1) :
                  r[j].count = r[j + 1].count
                      => FirstSeen(r[j].pc) < FirstSeen(r[j + 1].pc)

\* Three trace entries at 200, 100, 200 and then 20 entries at other
\* addresses: 200 comes first with count 2, then 100, seen before the
\* others, and the counts of the 22 sites sum to the 23 entries.
C38_Witness ==
    /\ fnArgs.fn = "trace_summary"
    /\ fnResult.kind = "result"
    /\ fnArgs.topN.kind = "none"
    /\ fnResult.instructionsLogged = 3 + DEFAULT_TOP_N
    /\ Len(fnResult.pc_counts) = 2 + DEFAULT_TOP_N
    /\ fnResult.hotspots[1].pc = 200 /\ fnResult.hotspots[1].count = 2
    /\ fnResult.hotspots[2].pc = 100 /\ fnResult.hotspots[2].count = 1
    /\ fnResult.hotspots[3].pc = 1 /\ fnResult.hotspots[3].count = 1

\* ====================================================== frame effect claims
CaptureReturned == tool = W_CAPTURE /\ tpc = "done"

\* The first two sub-calls are the clearing of the recorded hits and the
\* switching off of auto-pause.
SettingsChanged ==
    /\ Len(calls) >= 2
    /\ calls[1].action = "breakpoint.clearHits"
    /\ calls[2].action = "breakpoint.setAutoMode"
    /\ calls[2].enabled = "False"

\* No sub-call behind them touches auto-pause or the recorded hits again:
\* the later sub-calls are add, resume, step, pause, getHits and remove.
NeverPutBack ==
    \A k \in DOMAIN calls :
        k > 2 => calls[k].action \in
                    {"breakpoint.add", "execution.resume", "execution.step",
                     "execution.pause", "breakpoint.getHits", "breakpoint.remove"}

\* C39 as stated: on every exit path of capture_write_source, the early
\* return on a failed breakpoint.add included, the recorded hits have been
\* cleared and auto-pause has been set to disabled, and no later sub-call
\* re-enables auto-pause or restores the hits.
C39_SettingsNotRestored ==
    CaptureReturned => (SettingsChanged /\ NeverPutBack)

\* C39, amended: on every exit path of capture_write_source behind the
\* computation of the frame count, the early return on a failed
\* breakpoint.add and the exits by an exception included, the first two
\* sub-calls issued are breakpoint.clearHits and
\* breakpoint.setAutoMode(enabled = False) and no later sub-call touches
\* auto-pause or the recorded hits; a call whose frames argument cannot be
\* compared with the cap returns with no sub-call issued.
C39_SettingsNotRestoredWhenFramesValid ==
    /\ CaptureReturned =>
          IF frames_raises(arguments)
          THEN calls = <<>> /\ toolResult.kind = "exception"
          ELSE SettingsChanged /\ NeverPutBack
    /\ (tool = W_CAPTURE /\ Len(calls) >= 2) => (SettingsChanged /\ NeverPutBack)

\* breakpoint.add failed behind the two settings calls, both answered
\* without error: the workflow returned the add error after three calls.
C39_Witness ==
    /\ CaptureReturned
    /\ AddFailed
    /\ Len(calls) = 3
    /\ ~calls[1].error
    /\ ~calls[2].error
    /\ calls[2].enabled = "False"
    /\ toolResult = ErrorOf(locals.bp_result)

====
